---- MODULE Spec2Model ----
(***************************************************************************)
(* Expense tracker: the record store (ExpenseContext.tsx), the filter and  *)
(* summary derivations, form validation (ExpenseForm.tsx) and the CSV      *)
(* export (lib/utils.ts, ExportButton.tsx, AdvancedExportModal.tsx) and   *)
(* the Cloud Export Hub (CloudExportHub.tsx, listed in README.md).         *)
(*                                                                         *)
(* Strings the code inspects character by character (descriptions, search *)
(* queries, category names, ISO dates, amount input, CSV text) are         *)
(* sequences of one-character strings.  JavaScript numbers are records     *)
(* [nan, v] with v counted in hundredths of a currency unit; the inputs    *)
(* are multiples of 0.25, for which binary floating point is exact.        *)
(***************************************************************************)
EXTENDS Integers, Sequences, FiniteSets, TLC

VARIABLES
    expenses,          \* useState<Expense[]> of ExpenseProvider
    filters,           \* useState<ExpenseFilters>
    isLoading,         \* useState(true)
    filteredExpenses,  \* value computed by the last render of the provider
    summary,           \* value held by React.useMemo(..., [expenses])
    renderDate,        \* local calendar date at the last render
    stored,            \* list held by the persistence collaborator
    today,             \* caller's local calendar date [y, m, d]
    tz,                \* caller's offset from UTC in minutes (east positive)
    nowMs,             \* reading of Date.now()
    errors,            \* ExpenseForm: errors of the form submitted last
    formData,          \* ExpenseForm: formData of the form submitted last
    editingId,         \* ExpenseList: useState<string | null>
    lastExport,        \* outcome of the last export attempt
    modal,             \* AdvancedExportModal: isOpen prop and useState values
    pending,           \* AdvancedExportModal.handleExport in flight: its closure
    hub,               \* CloudExportHub: isOpen prop and useState values
    hubExport          \* CloudExportHub.handleExport in flight: its closure

hubVars == <<hub, hubExport>>

exportVars == <<lastExport, modal, pending, hub, hubExport>>

vars == <<expenses, filters, isLoading, filteredExpenses, summary, renderDate,
          stored, today, tz, nowMs, errors, formData, editingId, lastExport, modal, pending,
          hub, hubExport>>

-----------------------------------------------------------------------------
(* Bounds *)

MaxExpenses == 2
MaxClock == 3
MaxDays == 1
MaxSummaryRecords == 4

-----------------------------------------------------------------------------
(* Characters and strings *)

\* Code-unit order of the characters used (ASCII order).
CharOrder ==
    <<"\n", " ", "\"", ",", "-", ".",
      "0", "1", "2", "3", "4", "5", "6", "7", "8", "9",
      "A", "B", "C", "D", "E", "F", "G", "H", "I", "J", "K", "L", "M",
      "N", "O", "P", "Q", "R", "S", "T", "U", "V", "W", "X", "Y", "Z",
      "a", "b", "c", "d", "e", "f", "g", "h", "i", "j", "k", "l", "m",
      "n", "o", "p", "q", "r", "s", "t", "u", "v", "w", "x", "y", "z">>

CharCode(c) == CHOOSE i \in 1..Len(CharOrder) : CharOrder[i] = c

IsDigit(c) == CharCode(c) >= 7 /\ CharCode(c) <= 16
DigitVal(c) == CharCode(c) - 7
DigitChar(n) == CharOrder[n + 7]
IsUpper(c) == CharCode(c) >= 17 /\ CharCode(c) <= 42
IsSpace(c) == c = " " \/ c = "\n"

\* String.prototype.toLowerCase
toLowerCase(s) ==
    [i \in 1..Len(s) |-> IF IsUpper(s[i]) THEN CharOrder[CharCode(s[i]) + 26] ELSE s[i]]

\* String.prototype.includes
includes(s, q) ==
    \E i \in 0..(Len(s) - Len(q)) : SubSeq(s, i + 1, i + Len(q)) = q

\* JavaScript's a < b on strings: lexicographic by code unit.
RECURSIVE StrLess(_, _)
StrLess(a, b) ==
    IF b = <<>> THEN FALSE
    ELSE IF a = <<>> THEN TRUE
    ELSE IF a[1] # b[1] THEN CharCode(a[1]) < CharCode(b[1])
    ELSE StrLess(Tail(a), Tail(b))

StrLeq(a, b) == a = b \/ StrLess(a, b)

RECURSIVE TrimStart(_)
TrimStart(s) ==
    IF s # <<>> /\ IsSpace(s[1]) THEN TrimStart(Tail(s)) ELSE s

RECURSIVE TrimEnd(_)
TrimEnd(s) ==
    IF s # <<>> /\ IsSpace(s[Len(s)]) THEN TrimEnd(SubSeq(s, 1, Len(s) - 1)) ELSE s

\* String.prototype.trim
trim(s) == TrimEnd(TrimStart(s))

\* Array.prototype.join on an array of strings
RECURSIVE join(_, _)
join(parts, sep) ==
    IF parts = <<>> THEN <<>>
    ELSE IF Len(parts) = 1 THEN parts[1]
    ELSE parts[1] \o sep \o join(Tail(parts), sep)

-----------------------------------------------------------------------------
(* Numbers *)

NaN == [nan |-> TRUE, v |-> 0]
Num(x) == [nan |-> FALSE, v |-> x]

Plus(a, b) == IF a.nan \/ b.nan THEN NaN ELSE Num(a.v + b.v)

RECURSIVE DigitPrefix(_)
DigitPrefix(s) ==
    IF s # <<>> /\ IsDigit(s[1]) THEN <<s[1]>> \o DigitPrefix(Tail(s)) ELSE <<>>

RECURSIVE DigitsValue(_)
DigitsValue(ds) ==
    IF ds = <<>> THEN 0 ELSE DigitsValue(SubSeq(ds, 1, Len(ds) - 1)) * 10 + DigitVal(ds[Len(ds)])

\* Hundredths denoted by the fraction digits (inputs carry at most two).
FractionValue(ds) ==
    IF ds = <<>> THEN 0
    ELSE IF Len(ds) = 1 THEN DigitVal(ds[1]) * 10
    ELSE DigitVal(ds[1]) * 10 + DigitVal(ds[2])

\* parseFloat: leading white space, optional sign, digits, optional
\* fraction; anything after the longest numeric prefix is ignored.
parseFloat(str) ==
    LET s0 == TrimStart(str)
        neg == s0 # <<>> /\ s0[1] = "-"
        s1 == IF s0 # <<>> /\ (s0[1] = "-") THEN Tail(s0) ELSE s0
        ip == DigitPrefix(s1)
        s2 == SubSeq(s1, Len(ip) + 1, Len(s1))
        hasDot == s2 # <<>> /\ s2[1] = "."
        fp == IF hasDot THEN DigitPrefix(Tail(s2)) ELSE <<>>
        mag == DigitsValue(ip) * 100 + FractionValue(fp)
    IN IF ip = <<>> /\ fp = <<>> THEN NaN
       ELSE Num(IF neg THEN -mag ELSE mag)

RECURSIVE NatToString(_)
NatToString(n) ==
    IF n < 10 THEN <<DigitChar(n)>> ELSE NatToString(n \div 10) \o <<DigitChar(n % 10)>>

\* Number.prototype.toString for a value with at most two decimals
NumberToString(a) ==
    IF a.nan THEN <<"N", "a", "N">>
    ELSE LET m == IF a.v < 0 THEN -a.v ELSE a.v
             f == m % 100
             frac == IF f = 0 THEN <<>>
                     ELSE IF f % 10 = 0 THEN <<".", DigitChar(f \div 10)>>
                     ELSE <<".", DigitChar(f \div 10), DigitChar(f % 10)>>
         IN (IF a.v < 0 THEN <<"-">> ELSE <<>>) \o NatToString(m \div 100) \o frac

isValidAmountAnySign(amount) ==
    LET num == parseFloat(amount) IN ~num.nan

isValidAmount(amount) ==
    LET num == parseFloat(amount) IN ~num.nan /\ num.v > 0

-----------------------------------------------------------------------------
(* Calendar *)

IsLeap(y) == (y % 4 = 0 /\ y % 100 # 0) \/ y % 400 = 0

DaysInMonth(y, m) ==
    IF m = 2 THEN (IF IsLeap(y) THEN 29 ELSE 28)
    ELSE IF m \in {4, 6, 9, 11} THEN 30 ELSE 31

PrevDay(d) ==
    IF d.d > 1 THEN [d EXCEPT !.d = d.d - 1]
    ELSE IF d.m > 1 THEN [y |-> d.y, m |-> d.m - 1, d |-> DaysInMonth(d.y, d.m - 1)]
    ELSE [y |-> d.y - 1, m |-> 12, d |-> 31]

NextDay(d) ==
    IF d.d < DaysInMonth(d.y, d.m) THEN [d EXCEPT !.d = d.d + 1]
    ELSE IF d.m < 12 THEN [y |-> d.y, m |-> d.m + 1, d |-> 1]
    ELSE [y |-> d.y + 1, m |-> 1, d |-> 1]

Pad(n, width) ==
    LET s == NatToString(n)
    IN [i \in 1..(width - Len(s)) |-> "0"] \o s

\* The UTC calendar date of local midnight of day d for a caller at offset
\* off: the part of Date.prototype.toISOString() before the 'T'.
UTCDateOfLocalMidnight(d, off) ==
    LET utcMinute == 0 - off
    IN IF utcMinute < 0 THEN PrevDay(d)
       ELSE IF utcMinute >= 1440 THEN NextDay(d)
       ELSE d

ISODate(d) == Pad(d.y, 4) \o <<"-">> \o Pad(d.m, 2) \o <<"-">> \o Pad(d.d, 2)

getMonthStart(now, off) ==
    ISODate(UTCDateOfLocalMidnight([y |-> now.y, m |-> now.m, d |-> 1], off))

getMonthEnd(now, off) ==
    ISODate(UTCDateOfLocalMidnight(
        [y |-> now.y, m |-> now.m, d |-> DaysInMonth(now.y, now.m)], off))

-----------------------------------------------------------------------------
(* Domain values *)

All == <<"A", "l", "l">>
Food == <<"F", "o", "o", "d">>
Transportation == <<"T", "r", "a", "n", "s", "p", "o", "r", "t", "a", "t", "i", "o", "n">>
Entertainment == <<"E", "n", "t", "e", "r", "t", "a", "i", "n", "m", "e", "n", "t">>
Shopping == <<"S", "h", "o", "p", "p", "i", "n", "g">>
Bills == <<"B", "i", "l", "l", "s">>
Other == <<"O", "t", "h", "e", "r">>

CATEGORIES == <<Food, Transportation, Entertainment, Shopping, Bills, Other>>

initialFilters ==
    [category |-> All, startDate |-> <<>>, endDate |-> <<>>, searchQuery |-> <<>>]

NoId == <<>>

-----------------------------------------------------------------------------
(* Filter engine: ExpenseContext.tsx, filteredExpenses *)

\* Search decides alone, before the category and date clauses are looked at.
PassesFilterSearchFirst(expense, f) ==
    IF f.searchQuery # <<>>
    THEN LET query == toLowerCase(f.searchQuery)
         IN includes(toLowerCase(expense.description), query)
            \/ includes(toLowerCase(expense.category), query)
    ELSE IF f.category # All /\ expense.category # f.category THEN FALSE
    ELSE IF f.startDate # <<>> /\ StrLess(expense.date, f.startDate) THEN FALSE
    ELSE IF f.endDate # <<>> /\ StrLess(f.endDate, expense.date) THEN FALSE
    ELSE TRUE

\* Date bounds taken as exclusive.
PassesFilterExclusive(expense, f) ==
    IF f.category # All /\ expense.category # f.category THEN FALSE
    ELSE IF f.startDate # <<>> /\ StrLeq(expense.date, f.startDate) THEN FALSE
    ELSE IF f.endDate # <<>> /\ StrLeq(f.endDate, expense.date) THEN FALSE
    ELSE IF f.searchQuery # <<>>
         THEN LET query == toLowerCase(f.searchQuery)
              IN includes(toLowerCase(expense.description), query)
                 \/ includes(toLowerCase(expense.category), query)
    ELSE TRUE

PassesFilter(expense, f) ==
    IF f.category # All /\ expense.category # f.category THEN FALSE
    ELSE IF f.startDate # <<>> /\ StrLess(expense.date, f.startDate) THEN FALSE
    ELSE IF f.endDate # <<>> /\ StrLess(f.endDate, expense.date) THEN FALSE
    ELSE IF f.searchQuery # <<>>
         THEN LET query == toLowerCase(f.searchQuery)
              IN includes(toLowerCase(expense.description), query)
                 \/ includes(toLowerCase(expense.category), query)
    ELSE TRUE

\* A filter that returns the passing records newest entry first.
FilterExpensesReversed(list, f) ==
    LET passing == SelectSeq(list, LAMBDA e : PassesFilter(e, f))
    IN [i \in 1..Len(passing) |-> passing[Len(passing) + 1 - i]]

FilterExpenses(list, f) == SelectSeq(list, LAMBDA e : PassesFilter(e, f))

-----------------------------------------------------------------------------
(* Summary engine: ExpenseContext.tsx, summary *)

RECURSIVE SumAmounts(_)
SumAmounts(list) ==
    IF list = <<>> THEN Num(0)
    ELSE Plus(SumAmounts(SubSeq(list, 1, Len(list) - 1)), list[Len(list)].amount)

InMonth(exp, now, off) ==
    StrLeq(getMonthStart(now, off), exp.date) /\ StrLeq(exp.date, getMonthEnd(now, off))

\* The keys of a breakdown that always lists the six categories.
RECURSIVE CategoryKeysAll(_)
CategoryKeysAll(list) ==
    IF list = <<>> THEN <<>>
    ELSE <<Food, Transportation, Entertainment, Shopping, Bills, Other>>

\* Keys of the Map categoryTotals in insertion order.
RECURSIVE CategoryKeys(_)
CategoryKeys(list) ==
    IF list = <<>> THEN <<>>
    ELSE LET before == CategoryKeys(SubSeq(list, 1, Len(list) - 1))
             c == list[Len(list)].category
         IN IF \E i \in 1..Len(before) : before[i] = c THEN before ELSE Append(before, c)

-----------------------------------------------------------------------------
(* IEEE 754 double arithmetic of JavaScript numbers, on natural numbers of
   any size held as sequences of limbs, least significant first *)

LimbBase == 32768
LimbBits == 15

RECURSIVE Pow2(_)
Pow2(n) == IF n = 0 THEN 1 ELSE 2 * Pow2(n - 1)

RECURSIVE BigOfNat(_)
BigOfNat(n) == IF n = 0 THEN <<>> ELSE <<n % LimbBase>> \o BigOfNat(n \div LimbBase)

RECURSIVE BigNorm(_)
BigNorm(x) ==
    IF x # <<>> /\ x[Len(x)] = 0 THEN BigNorm(SubSeq(x, 1, Len(x) - 1)) ELSE x

\* x * k + carry for a factor k below LimbBase
RECURSIVE BigMulSmall(_, _, _)
BigMulSmall(x, k, carry) ==
    IF x = <<>> THEN BigOfNat(carry)
    ELSE LET t == x[1] * k + carry
         IN <<t % LimbBase>> \o BigMulSmall(Tail(x), k, t \div LimbBase)

RECURSIVE BigAdd(_, _, _)
BigAdd(x, y, carry) ==
    IF x = <<>> /\ y = <<>> THEN BigOfNat(carry)
    ELSE LET a == IF x = <<>> THEN 0 ELSE x[1]
             b == IF y = <<>> THEN 0 ELSE y[1]
             t == a + b + carry
         IN <<t % LimbBase>> \o
            BigAdd(IF x = <<>> THEN x ELSE Tail(x), IF y = <<>> THEN y ELSE Tail(y),
                   t \div LimbBase)

\* x < y, x = y or x > y as -1, 0 or 1
RECURSIVE BigCmp(_, _)
BigCmp(x, y) ==
    IF Len(x) # Len(y) THEN (IF Len(x) < Len(y) THEN -1 ELSE 1)
    ELSE IF x = <<>> THEN 0
    ELSE IF x[Len(x)] # y[Len(y)] THEN (IF x[Len(x)] < y[Len(y)] THEN -1 ELSE 1)
    ELSE BigCmp(SubSeq(x, 1, Len(x) - 1), SubSeq(y, 1, Len(y) - 1))

\* x - y for x >= y
RECURSIVE BigSubBorrow(_, _, _)
BigSubBorrow(x, y, borrow) ==
    IF x = <<>> THEN <<>>
    ELSE LET b == (IF y = <<>> THEN 0 ELSE y[1]) + borrow
             under == x[1] < b
         IN <<(IF under THEN x[1] + LimbBase ELSE x[1]) - b>> \o
            BigSubBorrow(Tail(x), IF y = <<>> THEN y ELSE Tail(y), IF under THEN 1 ELSE 0)

BigSub(x, y) == BigNorm(BigSubBorrow(x, y, 0))

\* Quotient and remainder of x by a divisor k below LimbBase
RECURSIVE BigDivSmallFrom(_, _, _)
BigDivSmallFrom(x, k, rem) ==
    IF x = <<>> THEN [q |-> <<>>, r |-> rem]
    ELSE LET t == rem * LimbBase + x[Len(x)]
             lower == BigDivSmallFrom(SubSeq(x, 1, Len(x) - 1), k, t % k)
         IN [q |-> Append(lower.q, t \div k), r |-> lower.r]

BigDivSmall(x, k) ==
    LET res == BigDivSmallFrom(x, k, 0) IN [q |-> BigNorm(res.q), r |-> res.r]

\* x * 2^n
BigShl(x, n) ==
    IF x = <<>> THEN <<>>
    ELSE LET shifted == BigMulSmall(x, Pow2(n % LimbBits), 0)
         IN IF n < LimbBits THEN shifted
            ELSE [i \in 1..(n \div LimbBits) |-> 0] \o shifted

\* floor(x / 2^n)
BigShr(x, n) ==
    LET limbs == n \div LimbBits
    IN IF limbs >= Len(x) THEN <<>>
       ELSE BigDivSmall(SubSeq(x, limbs + 1, Len(x)), Pow2(n % LimbBits)).q

RECURSIVE BitLength(_)
BitLength(n) == IF n = 0 THEN 0 ELSE 1 + BitLength(n \div 2)

BigBitLength(x) ==
    IF x = <<>> THEN 0 ELSE LimbBits * (Len(x) - 1) + BitLength(x[Len(x)])

BigIsOdd(x) == x # <<>> /\ x[1] % 2 = 1

\* A finite double m * 2^e, m = 0 or 2^52 <= m < 2^53
DoubleZero == [m |-> <<>>, e |-> 0]

\* The double nearest to x * 2^e, ties to even (x of any size)
RoundToDouble(x, e) ==
    LET len == BigBitLength(x)
    IN IF len = 0 THEN DoubleZero
       ELSE IF len <= 53 THEN [m |-> BigShl(x, 53 - len), e |-> e - (53 - len)]
       ELSE LET n == len - 53
                q == BigShr(x, n)
                rest == BigSub(x, BigShl(q, n))
                half == BigCmp(rest, BigShl(<<1>>, n - 1))
                up == half = 1 \/ (half = 0 /\ BigIsOdd(q))
                m == IF up THEN BigAdd(q, <<1>>, 0) ELSE q
            IN IF BigBitLength(m) = 54
               THEN [m |-> BigShr(m, 1), e |-> e + n + 1]
               ELSE [m |-> m, e |-> e + n]

\* a / b in double arithmetic for naturals a, b with 0 < b < LimbBase: the
\* quotient is taken to 2^-75 and what is left of it kept as a sticky bit
DoubleDiv(a, b) ==
    IF a = 0 THEN DoubleZero
    ELSE LET res == BigDivSmall(BigShl(BigOfNat(a), 75), b)
             q2 == BigMulSmall(res.q, 2, IF res.r # 0 THEN 1 ELSE 0)
         IN RoundToDouble(q2, -76)

\* x * k in double arithmetic for a natural k below LimbBase
DoubleTimes(x, k) == RoundToDouble(BigMulSmall(x.m, k, 0), x.e)

-----------------------------------------------------------------------------
(* Summary, continued *)

\* A percentage that is the bare ratio amount / totalSpending.
PercentageUnscaled(amount, totalSpending) ==
    IF ~totalSpending.nan /\ totalSpending.v > 0
    THEN DoubleDiv(amount.v, totalSpending.v)
    ELSE DoubleZero

\* totalSpending > 0 ? (amount / totalSpending) * 100 : 0, in double
\* arithmetic. The amounts of the inputs are multiples of 0.25, which doubles
\* hold exactly, so the quotient of the doubles is that of the hundredths.
Percentage(amount, totalSpending) ==
    IF ~totalSpending.nan /\ totalSpending.v > 0
    THEN DoubleTimes(DoubleDiv(amount.v, totalSpending.v), 100)
    ELSE DoubleZero

\* A stable sort by amount ascending.
RECURSIVE SortByAmountAsc(_)
SortByAmountAsc(entries) ==
    IF entries = <<>> THEN <<>>
    ELSE LET init == SortByAmountAsc(SubSeq(entries, 1, Len(entries) - 1))
             e == entries[Len(entries)]
             k == Cardinality({i \in 1..Len(init) : init[i].amount.v <= e.amount.v})
         IN SubSeq(init, 1, k) \o <<e>> \o SubSeq(init, k + 1, Len(init))

\* A descending sort that puts an entry before the entries equal to it.
RECURSIVE SortByAmountDescUnstable(_)
SortByAmountDescUnstable(entries) ==
    IF entries = <<>> THEN <<>>
    ELSE LET init == SortByAmountDescUnstable(SubSeq(entries, 1, Len(entries) - 1))
             e == entries[Len(entries)]
             k == Cardinality({i \in 1..Len(init) : init[i].amount.v > e.amount.v})
         IN SubSeq(init, 1, k) \o <<e>> \o SubSeq(init, k + 1, Len(init))

\* Array.prototype.sort with (a, b) => b.amount - a.amount: stable, descending.
RECURSIVE SortByAmountDesc(_)
SortByAmountDesc(entries) ==
    IF entries = <<>> THEN <<>>
    ELSE LET init == SortByAmountDesc(SubSeq(entries, 1, Len(entries) - 1))
             e == entries[Len(entries)]
             k == Cardinality({i \in 1..Len(init) : init[i].amount.v >= e.amount.v})
         IN SubSeq(init, 1, k) \o <<e>> \o SubSeq(init, k + 1, Len(init))

Summarize(list, now, off) ==
    LET totalSpending == SumAmounts(list)
        monthlyExpenses == SelectSeq(list, LAMBDA exp : InMonth(exp, now, off))
        keys == CategoryKeys(list)
        entries == [i \in 1..Len(keys) |->
                      LET amount == SumAmounts(SelectSeq(list, LAMBDA exp : exp.category = keys[i]))
                      IN [category |-> keys[i], amount |-> amount,
                          percentage |-> Percentage(amount, totalSpending)]]
        categoryBreakdown == SortByAmountDesc(entries)
    IN [totalSpending |-> totalSpending,
        monthlySpending |-> SumAmounts(monthlyExpenses),
        topCategory |-> IF Len(categoryBreakdown) > 0
                        THEN <<[name |-> categoryBreakdown[1].category,
                                amount |-> categoryBreakdown[1].amount]>>
                        ELSE <<>>,
        categoryBreakdown |-> categoryBreakdown]

-----------------------------------------------------------------------------
(* Form validation: ExpenseForm.tsx *)

FormKeys == {"date", "amount", "category", "description"}

validateField(name, value) ==
    CASE name = "date" -> IF value = <<>> THEN "Date is required" ELSE ""
      [] name = "amount" ->
            IF value = <<>> THEN "Amount is required"
            ELSE IF ~isValidAmount(value) THEN "Enter a valid amount greater than 0"
            ELSE ""
      [] name = "description" ->
            IF trim(value) = <<>> THEN "Description is required" ELSE ""
      [] OTHER -> ""

\* A validation that looks at the amount only.
NewErrorsAmountOnly(entered) ==
    [key \in {k \in {"amount"} : validateField(k, entered[k]) # ""} |->
        validateField(key, entered[key])]

\* newErrors as built by handleSubmit: one entry per field that failed.
NewErrors(entered) ==
    [key \in {k \in FormKeys : validateField(k, entered[k]) # ""} |->
        validateField(key, entered[key])]

NoErrors == [key \in {} |-> ""]

\* The form after a successful submit: its fields are reset and the caller
\* takes it off the page (Home.handleAddExpense, ExpenseList.handleUpdate).
NoForm == <<>>

-----------------------------------------------------------------------------
(* Record store: ExpenseContext.tsx *)

\* generateId: `${Date.now()}-${random}` as the pair of its two parts.
generateId(ms, random) == <<ms, random>>

\* [...expenses, newExpense] of addExpense
AddedExpenses(list, data, id, createdAt) ==
    Append(list, [id |-> id,
                  date |-> data.date,
                  amount |-> parseFloat(data.amount),
                  category |-> data.category,
                  description |-> data.description,
                  createdAt |-> createdAt])

HasId(list, id) == \E i \in 1..Len(list) : list[i].id = id

\* expenses.map(...) of updateExpense; the id is known to be present
UpdatedExpenses(list, id, data) ==
    LET expense == list[CHOOSE i \in 1..Len(list) :
                          list[i].id = id /\ \A j \in 1..(i - 1) : list[j].id # id]
        updatedExpense == [expense EXCEPT !.date = data.date,
                                          !.amount = parseFloat(data.amount),
                                          !.category = data.category,
                                          !.description = data.description]
    IN [i \in 1..Len(list) |-> IF list[i].id = id THEN updatedExpense ELSE list[i]]

\* A delete that stops at the first record with the id and drops the rest.
DeletedExpensesTruncating(list, id) ==
    IF HasId(list, id)
    THEN SubSeq(list, 1, (CHOOSE i \in 1..Len(list) :
                            list[i].id = id /\ \A j \in 1..(i - 1) : list[j].id # id) - 1)
    ELSE list

\* expenses.filter(exp => exp.id !== id) of deleteExpense
DeletedExpenses(list, id) == SelectSeq(list, LAMBDA exp : exp.id # id)

\* storage.saveExpenses(list): the collaborator holds the list it was given.
SaveExpenses(list) == list

\* storage.getExpenses(): the list the collaborator holds.
GetExpenses(held) == held

\* A render whose summary is computed from the filtered records.
RenderSummaryOfFiltered(expensesReplaced) ==
    /\ filteredExpenses' = FilterExpenses(expenses', filters')
    /\ summary' = IF expensesReplaced
                  THEN Summarize(FilterExpenses(expenses', filters'), today, tz)
                  ELSE summary
    /\ renderDate' = today

\* A render of ExpenseProvider: filteredExpenses is computed afresh, the
\* memoised summary only when the expenses array was replaced.
Render(expensesReplaced) ==
    /\ filteredExpenses' = FilterExpenses(expenses', filters')
    /\ summary' = IF expensesReplaced THEN Summarize(expenses', today, tz) ELSE summary
    /\ renderDate' = today

-----------------------------------------------------------------------------
(* Inputs *)

StartDay == [y |-> 2024, m |-> 3, d |-> 31]
TzOffsets == {-300, 0, 120}
RandomStrings == {"k3f", "x7q"}

RECURSIVE DayAfter(_, _)
DayAfter(d, n) == IF n = 0 THEN d ELSE DayAfter(NextDay(d), n - 1)

Feb29 == ISODate([y |-> 2024, m |-> 2, d |-> 29])
Mar01 == ISODate([y |-> 2024, m |-> 3, d |-> 1])
Mar31 == ISODate([y |-> 2024, m |-> 3, d |-> 31])
Apr01 == ISODate([y |-> 2024, m |-> 4, d |-> 1])

Tea == <<"T", "e", "a">>
Bus == <<"B", "u", "s">>
Blank == <<" ", "\n">>

ValidForms ==
    { [date |-> Mar31, amount |-> <<"5">>, category |-> Food, description |-> Tea],
      [date |-> Mar01, amount |-> <<"1", "2", ".", "5">>, category |-> Bills, description |-> Bus] }

InvalidForms ==
    { [date |-> Mar31, amount |-> <<"0">>, category |-> Food, description |-> Tea],
      [date |-> Mar31, amount |-> <<"-", "2", ".", "5">>, category |-> Food, description |-> Tea],
      [date |-> Mar31, amount |-> <<"a", "b", "c">>, category |-> Food, description |-> Tea],
      [date |-> Mar31, amount |-> <<"5">>, category |-> Food, description |-> Blank],
      [date |-> <<>>, amount |-> <<>>, category |-> Food, description |-> <<>>] }

FormInputs == ValidForms \cup InvalidForms

\* Forms dated on both sides of the month boundaries around StartDay.
MonthForms ==
    { [date |-> d, amount |-> <<"5">>, category |-> Food, description |-> Tea] :
        d \in {Feb29, Mar01, Mar31, Apr01} }

\* A record written by an earlier session of the application.
SavedExpense ==
    [id |-> generateId(0, "k3f"), date |-> Mar01, amount |-> Num(500),
     category |-> Food, description |-> Tea, createdAt |-> 0]

InitialStored == {<<>>, <<SavedExpense>>}

CategoryChoices == {All, Food, Bills}

NoExport ==
    [op |-> "none", outcome |-> "none", records |-> <<>>, content |-> <<>>,
     message |-> "", filename |-> ""]

\* AdvancedExportModal before it is opened: the useState initial values.
ClosedModal ==
    [isOpen |-> FALSE, format |-> "csv", startDate |-> <<>>, endDate |-> <<>>,
     includeAllCategories |-> TRUE, selectedCategories |-> <<>>, isExporting |-> FALSE,
     filename |-> "expense-report"]

NotPending == [phase |-> "idle", records |-> <<>>, format |-> "csv", filename |-> ""]

\* CloudExportHub: milliseconds of the mock timestamps
HourMs == 3600000
DayMs == 86400000
WeekMs == 604800000

\* CloudExportHub: the useState initial values, computed at the mount with
\* Date.now() = mountMs; isOpen is the showCloudExport state of Home
InitialHub(mountMs) ==
    [isOpen |-> FALSE,
     activeTab |-> "export",
     selectedTemplate |-> "monthly-summary",
     selectedProvider |-> "google-sheets",
     emailRecipients |-> "",
     isExporting |-> FALSE,
     exportProgress |-> 0,
     exportHistory |->
        << [id |-> <<"1">>, timestamp |-> mountMs - DayMs, template |-> "monthly-summary",
            provider |-> "google-sheets", recordCount |-> 45, totalAmount |-> Num(234567),
            status |-> "success", destination |-> "My Drive/Expenses/October 2025"],
           [id |-> <<"2">>, timestamp |-> mountMs - 2 * DayMs, template |-> "tax-report",
            provider |-> "email", recordCount |-> 120, totalAmount |-> Num(567890),
            status |-> "success", destination |-> "accountant@example.com"] >>,
     cloudIntegrations |->
        << [provider |-> "google-sheets", connected |-> TRUE,
            lastSync |-> <<mountMs - HourMs>>, accountEmail |-> "user@gmail.com"],
           [provider |-> "dropbox", connected |-> FALSE,
            lastSync |-> <<>>, accountEmail |-> ""],
           [provider |-> "onedrive", connected |-> TRUE,
            lastSync |-> <<mountMs - 2 * HourMs>>, accountEmail |-> "user@outlook.com"],
           [provider |-> "email", connected |-> TRUE,
            lastSync |-> <<>>, accountEmail |-> "user@example.com"] >>,
     scheduledExports |->
        << [id |-> <<"1">>, template |-> "monthly-summary", frequency |-> "monthly",
            provider |-> "google-sheets", destination |-> "My Drive/Expenses",
            enabled |-> TRUE, nextRun |-> mountMs + WeekMs] >>,
     shareableLinks |->
        << [id |-> <<"1">>, url |-> "https://expenses.app/share/abc123def",
            expiresAt |-> mountMs + WeekMs, viewCount |-> 5,
            createdAt |-> mountMs - DayMs] >>]

NoHubExport == [phase |-> "idle", i |-> 0, closure |-> <<>>]

-----------------------------------------------------------------------------
(* State machine *)

\* The state after the first render of a freshly mounted provider.
Mounted ==
    /\ expenses = <<>>
    /\ filters = initialFilters
    /\ isLoading = TRUE
    /\ filteredExpenses = <<>>
    /\ today = StartDay
    /\ summary = Summarize(<<>>, today, tz)
    /\ renderDate = today
    /\ stored \in InitialStored
    /\ nowMs = 1
    /\ errors = NoErrors
    /\ formData = NoForm
    /\ editingId = NoId
    /\ lastExport = NoExport
    /\ modal = ClosedModal
    /\ pending = NotPending
    /\ hub = InitialHub(nowMs)
    /\ hubExport = NoHubExport

Init == tz = 0 /\ Mounted

InitClock == tz \in TzOffsets /\ Mounted

\* useEffect(..., []) of ExpenseProvider
LoadExpenses ==
    /\ isLoading
    /\ expenses' = GetExpenses(stored)
    /\ isLoading' = FALSE
    /\ UNCHANGED <<filters, stored, today, tz, nowMs, errors, formData, editingId, exportVars>>
    /\ Render(TRUE)

\* addExpense(data): generateId() reads Date.now(), then new Date() reads the
\* clock again for createdAt, in the same millisecond or the next; the call
\* takes at least one clock tick
addExpense(data, random) ==
    \E createdAt \in {nowMs, nowMs + 1} :
        LET updatedExpenses ==
                AddedExpenses(expenses, data, generateId(nowMs, random), createdAt)
        IN /\ expenses' = updatedExpenses
           /\ stored' = SaveExpenses(updatedExpenses)
           /\ nowMs' = nowMs + 1
           /\ UNCHANGED <<filters, isLoading, today, tz, exportVars>>
           /\ Render(TRUE)

\* An update that sets and saves the list also when the id is not found.
updateExpenseSavingAlways(id, data) ==
    LET updatedExpenses == IF HasId(expenses, id)
                           THEN UpdatedExpenses(expenses, id, data) ELSE expenses
    IN /\ expenses' = updatedExpenses
       /\ stored' = SaveExpenses(updatedExpenses)
       /\ UNCHANGED <<filters, isLoading, today, tz, nowMs, exportVars>>
       /\ Render(TRUE)

\* updateExpense(id, data)
updateExpense(id, data) ==
    IF ~HasId(expenses, id)
    THEN UNCHANGED <<expenses, filters, isLoading, filteredExpenses, summary,
                     renderDate, stored, today, tz, nowMs, exportVars>>
    ELSE LET updatedExpenses == UpdatedExpenses(expenses, id, data)
         IN /\ expenses' = updatedExpenses
            /\ stored' = SaveExpenses(updatedExpenses)
            /\ UNCHANGED <<filters, isLoading, today, tz, nowMs, exportVars>>
            /\ Render(TRUE)

\* A delete that forgets the write to storage.
deleteExpenseUnsaved(id) ==
    LET updatedExpenses == DeletedExpenses(expenses, id)
    IN /\ expenses' = updatedExpenses
       /\ UNCHANGED <<stored, filters, isLoading, today, tz, nowMs, exportVars>>
       /\ Render(TRUE)

\* deleteExpense(id)
deleteExpense(id) ==
    LET updatedExpenses == DeletedExpenses(expenses, id)
    IN /\ expenses' = updatedExpenses
       /\ stored' = SaveExpenses(updatedExpenses)
       /\ UNCHANGED <<filters, isLoading, today, tz, nowMs, exportVars>>
       /\ Render(TRUE)

\* An Add form that is rendered and can be submitted while the page loads.
SubmitAddFormWhileLoading(entered, random) ==
    LET newErrors == NewErrors(entered)
    IN IF DOMAIN newErrors # {}
       THEN /\ errors' = newErrors
            /\ formData' = entered
            /\ UNCHANGED <<expenses, filters, isLoading, filteredExpenses, summary,
                           renderDate, stored, today, tz, nowMs, editingId, exportVars>>
       ELSE /\ Len(expenses) < MaxExpenses
            /\ nowMs < MaxClock
            /\ addExpense(entered, random)
            /\ errors' = NoErrors
            /\ formData' = NoForm
            /\ UNCHANGED editingId

\* ExpenseForm.handleSubmit of the Add form (Home.handleAddExpense)
SubmitAddForm(entered, random) ==
    /\ ~isLoading
    /\ LET newErrors == NewErrors(entered)
       IN IF DOMAIN newErrors # {}
          THEN /\ errors' = newErrors
               /\ formData' = entered
               /\ UNCHANGED <<expenses, filters, isLoading, filteredExpenses, summary,
                              renderDate, stored, today, tz, nowMs, editingId, exportVars>>
          ELSE /\ Len(expenses) < MaxExpenses
               /\ nowMs < MaxClock
               /\ addExpense(entered, random)
               /\ errors' = NoErrors
               /\ formData' = NoForm
               /\ UNCHANGED editingId

EditFormShown == HasId(filteredExpenses, editingId)

\* ExpenseList.handleEdit
handleEdit(id) ==
    /\ ~isLoading
    /\ HasId(filteredExpenses, id)
    /\ id # editingId
    /\ editingId' = id
    /\ UNCHANGED <<expenses, filters, isLoading, filteredExpenses, summary, renderDate,
                   stored, today, tz, nowMs, errors, formData, exportVars>>

\* ExpenseList.handleCancelEdit
handleCancelEdit ==
    /\ EditFormShown
    /\ editingId' = NoId
    /\ UNCHANGED <<expenses, filters, isLoading, filteredExpenses, summary, renderDate,
                   stored, today, tz, nowMs, errors, formData, exportVars>>

\* ExpenseForm.handleSubmit of the edit form (ExpenseList.handleUpdate)
SubmitEditForm(entered) ==
    /\ EditFormShown
    /\ LET newErrors == NewErrors(entered)
       IN IF DOMAIN newErrors # {}
          THEN /\ errors' = newErrors
               /\ formData' = entered
               /\ UNCHANGED <<expenses, filters, isLoading, filteredExpenses, summary,
                              renderDate, stored, today, tz, nowMs, editingId, exportVars>>
          ELSE /\ updateExpense(editingId, entered)
               /\ editingId' = NoId
               /\ errors' = NoErrors
               /\ formData' = NoForm

\* ExpenseList.handleDelete, confirmed
handleDelete(id) ==
    /\ ~isLoading
    /\ HasId(filteredExpenses, id)
    /\ id # editingId
    /\ deleteExpense(id)
    /\ UNCHANGED <<errors, formData, editingId>>

\* A consumer of useExpenses() calls deleteExpense(id) with any id.
DeleteExpenseCall(id) ==
    /\ ~isLoading
    /\ deleteExpense(id)
    /\ UNCHANGED <<errors, formData, editingId>>

\* ExpenseFilters.handleChange -> setFilters({...filters, [name]: value})
setFilters(name, value) ==
    /\ ~isLoading
    /\ filters' = [filters EXCEPT ![name] = value]
    /\ UNCHANGED <<expenses, isLoading, stored, today, tz, nowMs, errors, formData, editingId, exportVars>>
    /\ Render(FALSE)

hasActiveFilters ==
    \/ filters.category # All
    \/ filters.startDate # <<>>
    \/ filters.endDate # <<>>
    \/ filters.searchQuery # <<>>

\* A reset that keeps the search text.
resetFiltersKeepingSearch ==
    /\ ~isLoading
    /\ hasActiveFilters
    /\ filters' = [initialFilters EXCEPT !.searchQuery = filters.searchQuery]
    /\ UNCHANGED <<expenses, isLoading, stored, today, tz, nowMs, errors, formData, editingId, exportVars>>
    /\ Render(FALSE)

\* "Reset All" -> resetFilters()
resetFilters ==
    /\ ~isLoading
    /\ hasActiveFilters
    /\ filters' = initialFilters
    /\ UNCHANGED <<expenses, isLoading, stored, today, tz, nowMs, errors, formData, editingId, exportVars>>
    /\ Render(FALSE)

\* The caller's calendar day ends.
PassMidnight ==
    /\ today # DayAfter(StartDay, MaxDays)
    /\ today' = NextDay(today)
    /\ UNCHANGED <<expenses, filters, isLoading, filteredExpenses, summary, renderDate,
                   stored, tz, nowMs, errors, formData, editingId, exportVars>>

\* The system clock is set back (Date.now() is wall-clock time).
ClockSetBack ==
    /\ \E t \in 0..(nowMs - 1) : nowMs' = t
    /\ UNCHANGED <<expenses, filters, isLoading, filteredExpenses, summary, renderDate,
                   stored, today, tz, errors, formData, editingId, exportVars>>

ExpenseIds == {generateId(ms, r) : ms \in 0..MaxClock, r \in RandomStrings}

Next ==
    \/ LoadExpenses
    \/ \E entered \in FormInputs : SubmitAddForm(entered, "k3f")
    \/ \E id \in ExpenseIds : handleEdit(id)
    \/ handleCancelEdit
    \/ \E entered \in FormInputs : SubmitEditForm(entered)
    \/ \E id \in ExpenseIds : handleDelete(id)
    \/ \E c \in CategoryChoices : setFilters("category", c)
    \/ resetFilters

Spec == Init /\ [][Next]_vars

\* The store under a moving wall clock, in several time zones.
NextClock ==
    \/ LoadExpenses
    \/ \E entered \in MonthForms, random \in RandomStrings : SubmitAddForm(entered, random)
    \/ \E id \in ExpenseIds : handleDelete(id)
    \/ setFilters("category", Food)
    \/ resetFilters
    \/ PassMidnight
    \/ ClockSetBack

SpecClock == InitClock /\ [][NextClock]_vars

-----------------------------------------------------------------------------
(* The filter applied to a loaded list *)

Seafood == <<"S", "e", "a", "f", "o", "o", "d">>

FilterForms ==
    { [date |-> Feb29, amount |-> <<"5">>, category |-> Food, description |-> Tea],
      [date |-> Mar01, amount |-> <<"5">>, category |-> Bills, description |-> Seafood],
      [date |-> Mar31, amount |-> <<"5">>, category |-> Bills, description |-> Bus] }

\* Lists of up to n records as successive addExpense calls build them.
RECURSIVE ListsOf(_, _)
ListsOf(forms, n) ==
    IF n = 0 THEN {<<>>}
    ELSE LET shorter == ListsOf(forms, n - 1)
         IN shorter \cup
            { AddedExpenses(l, f, generateId(Len(l), "k3f"), Len(l)) :
                l \in {x \in shorter : Len(x) = n - 1}, f \in forms }

\* The state after the load of a stored list.
Loaded(lists) ==
    /\ expenses \in lists
    /\ stored = expenses
    /\ filters = initialFilters
    /\ isLoading = FALSE
    /\ filteredExpenses = FilterExpenses(expenses, filters)
    /\ today = StartDay
    /\ tz = 0
    /\ summary = Summarize(expenses, today, tz)
    /\ renderDate = today
    /\ nowMs = MaxExpenses
    /\ errors = NoErrors
    /\ formData = NoForm
    /\ editingId = NoId
    /\ lastExport = NoExport
    /\ modal = ClosedModal
    /\ pending = NotPending
    /\ hub = InitialHub(nowMs)
    /\ hubExport = NoHubExport

HubForms ==
    { [date |-> Mar01, amount |-> <<"5">>, category |-> Food, description |-> Tea],
      [date |-> Mar31, amount |-> <<"1", "2", ".", "5">>, category |-> Bills,
       description |-> Bus] }

InitHub == Loaded(ListsOf(HubForms, MaxExpenses))

InitFilter == Loaded(ListsOf(FilterForms, MaxExpenses))

DateChoices == {<<>>, Mar01, Mar31}
QueryChoices == {<<>>, <<"F", "O", "O", "D">>, <<"t", "e", "a">>}

NextFilter ==
    \/ \E c \in CategoryChoices : setFilters("category", c)
    \/ \E d \in DateChoices : setFilters("startDate", d)
    \/ \E d \in DateChoices : setFilters("endDate", d)
    \/ \E q \in QueryChoices : setFilters("searchQuery", q)
    \/ resetFilters

SpecFilter == InitFilter /\ [][NextFilter]_vars

-----------------------------------------------------------------------------
(* The summary of a loaded list that is edited and pruned *)

SummaryForms ==
    { [date |-> Mar31, amount |-> <<"5">>, category |-> Food, description |-> Tea],
      [date |-> Mar01, amount |-> <<"5">>, category |-> Bills, description |-> Bus],
      [date |-> Mar01, amount |-> <<"1", "2", ".", "5">>, category |-> Shopping,
       description |-> Bus] }

InitSummary == Loaded(ListsOf(SummaryForms, MaxSummaryRecords))

SummaryIds == {generateId(ms, "k3f") : ms \in 0..MaxSummaryRecords}

NextSummary ==
    \/ \E id \in SummaryIds : handleEdit(id)
    \/ handleCancelEdit
    \/ \E entered \in SummaryForms : SubmitEditForm(entered)
    \/ \E id \in SummaryIds : handleDelete(id)

SpecSummary == InitSummary /\ [][NextSummary]_vars

-----------------------------------------------------------------------------
(* Claims about the filter *)

Shown(e) == \E j \in 1..Len(filteredExpenses) : filteredExpenses[j] = e

TextMatches(e, q) ==
    \/ includes(toLowerCase(e.description), toLowerCase(q))
    \/ includes(toLowerCase(e.category), toLowerCase(q))

CategoryClause(e) == filters.category = All \/ filters.category = e.category
StartClause(e) == filters.startDate = <<>> \/ ~StrLess(e.date, filters.startDate)
EndClause(e) == filters.endDate = <<>> \/ ~StrLess(filters.endDate, e.date)

\* C1 as stated: with a non-empty search query a record is shown if and
\* only if its description or category name contains the query, whatever the
\* category and date bounds of the filter are.
C1_SearchDecidesAlone ==
    filters.searchQuery # <<>> =>
        \A i \in 1..Len(expenses) :
            Shown(expenses[i]) <=> TextMatches(expenses[i], filters.searchQuery)

\* C1 amended: with a non-empty search query a record is shown if and only
\* if the text matches and the category clause and both date clauses pass;
\* the search is one more conjunct, not a bypass.
C1_SearchIsConjunct ==
    filters.searchQuery # <<>> =>
        \A i \in 1..Len(expenses) :
            Shown(expenses[i]) <=>
                /\ TextMatches(expenses[i], filters.searchQuery)
                /\ CategoryClause(expenses[i])
                /\ StartClause(expenses[i])
                /\ EndClause(expenses[i])

\* A search is active together with a category, and a record whose text
\* matches is hidden by the category while another one is shown.
C1_Witness ==
    /\ filters.searchQuery # <<>>
    /\ filters.category # All
    /\ Len(filteredExpenses) > 0
    /\ \E i \in 1..Len(expenses) :
          /\ TextMatches(expenses[i], filters.searchQuery)
          /\ ~Shown(expenses[i])

\* C2: with an empty search query a record is shown if and only if the
\* category clause, the start-date clause and the end-date clause all hold,
\* both date bounds being inclusive.
C2_ThreeClauses ==
    filters.searchQuery = <<>> =>
        \A i \in 1..Len(expenses) :
            Shown(expenses[i]) <=>
                /\ CategoryClause(expenses[i])
                /\ StartClause(expenses[i])
                /\ EndClause(expenses[i])

\* No search, all three clauses set, one record on the start bound shown
\* and another record hidden.
C2_Witness ==
    /\ filters.searchQuery = <<>>
    /\ filters.category # All
    /\ filters.startDate # <<>>
    /\ filters.endDate # <<>>
    /\ \E i \in 1..Len(expenses) :
          Shown(expenses[i]) /\ expenses[i].date = filters.startDate
    /\ \E i \in 1..Len(expenses) : ~Shown(expenses[i])

-----------------------------------------------------------------------------
(* Claims about the summary *)

\* C3: at every render the summary the provider exposes equals a fresh
\* computation over the current record list and the current date, also when
\* the calendar month has changed while the list stayed the same.
C3_SummaryIsFresh == summary = Summarize(expenses, renderDate, tz)

FirstOfMonth(now) == ISODate([y |-> now.y, m |-> now.m, d |-> 1])
LastOfMonth(now) == ISODate([y |-> now.y, m |-> now.m, d |-> DaysInMonth(now.y, now.m)])

CalendarMonthRecords(list, now) ==
    SelectSeq(list, LAMBDA exp :
        StrLeq(FirstOfMonth(now), exp.date) /\ StrLeq(exp.date, LastOfMonth(now)))

\* C4: monthlySpending is the sum of the amounts of exactly the records
\* dated from the first to the last calendar day of the caller's current
\* month, in every time zone.
C4_MonthlySpendingIsCalendarMonth ==
    Summarize(expenses, today, tz).monthlySpending
        = SumAmounts(CalendarMonthRecords(expenses, today))

-----------------------------------------------------------------------------
(* Claims about the store *)

ValidRecord(exp) ==
    /\ ~exp.amount.nan
    /\ exp.amount.v > 0
    /\ trim(exp.description) # <<>>
    /\ exp.date # <<>>

\* C5: every record in the store has a positive amount, a description that
\* is not blank and a date; a form that fails validation never reaches it.
C5_StoredRecordsValid ==
    /\ \A i \in 1..Len(expenses) : ValidRecord(expenses[i])
    /\ \A i \in 1..Len(stored) : ValidRecord(stored[i])

\* A form was rejected while the store holds an added and an edited record.
C5_Witness ==
    /\ errors # NoErrors
    /\ Len(expenses) = 2
    /\ expenses[1] # SavedExpense
    /\ expenses[1].id = SavedExpense.id

\* C6: no two records in the store have the same id.
C6_IdsUnique ==
    \A i, j \in 1..Len(expenses) : i # j => expenses[i].id # expenses[j].id

\* C10: once the initial load is done, the list held by the persistence
\* collaborator is the in-memory record list.
C10_StoredIsMemory == ~isLoading => stored = expenses

\* A record was deleted from a loaded list and another one added.
C10_Witness ==
    /\ ~isLoading
    /\ Len(expenses) = 1
    /\ expenses[1].id # SavedExpense.id
    /\ stored = expenses
    /\ nowMs = MaxClock

-----------------------------------------------------------------------------
(* Export: lib/utils.ts exportToCSV, ExportButton.tsx, AdvancedExportModal.tsx *)

Quote == <<"\"">>
Comma == <<",">>
Newline == <<"\n">>

headers ==
    << <<"D", "a", "t", "e">>,
       <<"C", "a", "t", "e", "g", "o", "r", "y">>,
       <<"D", "e", "s", "c", "r", "i", "p", "t", "i", "o", "n">>,
       <<"A", "m", "o", "u", "n", "t">> >>

\* rows of exportToCSV: the four cells of one record
CSVRow(exp) == <<exp.date, exp.category, exp.description, NumberToString(exp.amount)>>

\* `"${cell}"`
CSVCell(cell) == Quote \o cell \o Quote

\* csvContent of exportToCSV
CSVContent(list) ==
    join(<<join(headers, Comma)>> \o
         [i \in 1..Len(list) |->
            join([k \in 1..4 |-> CSVCell(CSVRow(list[i])[k])], Comma)],
         Newline)

Download(op, list, content) ==
    [op |-> op, outcome |-> "download", records |-> list, content |-> content,
     message |-> "", filename |-> ""]

Alert(op, message) ==
    [op |-> op, outcome |-> "alert", records |-> <<>>, content |-> <<>>,
     message |-> message, filename |-> ""]

\* exportToCSV(list) of lib/utils.ts: builds the text and clicks the link
exportToCSV(op, list) ==
    /\ lastExport' = Download(op, list, CSVContent(list))
    /\ UNCHANGED <<expenses, filters, isLoading, filteredExpenses, summary, renderDate,
                   stored, today, tz, nowMs, errors, formData, editingId, modal, pending, hubVars>>

\* ExportButton.handleExport
ExportButtonClick ==
    /\ ~isLoading
    /\ IF Len(expenses) = 0
       THEN /\ lastExport' = Alert("ExportButton", "No expenses to export")
            /\ UNCHANGED <<expenses, filters, isLoading, filteredExpenses, summary,
                           renderDate, stored, today, tz, nowMs, errors, formData, editingId,
                           modal, pending, hubVars>>
       ELSE exportToCSV("ExportButton", expenses)

\* A caller hands the record list to the serializer itself.
ExportToCSVCall ==
    /\ ~isLoading
    /\ exportToCSV("exportToCSV", expenses)

\* new Date('YYYY-MM-DD').getTime(), which is a whole number of days from
\* the epoch to that UTC midnight, counted here in days (86400000 ms each)
DaysBeforeYear(y) == 365 * y + ((y + 3) \div 4) - ((y + 99) \div 100) + ((y + 399) \div 400)

RECURSIVE DaysBeforeMonth(_, _)
DaysBeforeMonth(y, m) ==
    IF m = 1 THEN 0 ELSE DaysBeforeMonth(y, m - 1) + DaysInMonth(y, m - 1)

DateTime(iso) ==
    LET y == DigitsValue(SubSeq(iso, 1, 4))
        m == DigitsValue(SubSeq(iso, 6, 7))
        d == DigitsValue(SubSeq(iso, 9, 10))
    IN DaysBeforeYear(y) + DaysBeforeMonth(y, m) + d - (DaysBeforeYear(1970) + 1)

\* filtered.sort((a, b) => new Date(b.date).getTime() - new Date(a.date).getTime())
RECURSIVE SortByDateDesc(_)
SortByDateDesc(list) ==
    IF list = <<>> THEN <<>>
    ELSE LET init == SortByDateDesc(SubSeq(list, 1, Len(list) - 1))
             e == list[Len(list)]
             k == Cardinality({i \in 1..Len(init) : DateTime(init[i].date) >= DateTime(e.date)})
         IN SubSeq(init, 1, k) \o <<e>> \o SubSeq(init, k + 1, Len(init))

\* An export filter whose end date is exclusive.
filterExpensesForExportExclusiveEnd(list, options) ==
    LET byStart == IF options.startDate # <<>>
                   THEN SelectSeq(list, LAMBDA exp : ~StrLess(exp.date, options.startDate))
                   ELSE list
        byEnd == IF options.endDate # <<>>
                 THEN SelectSeq(byStart, LAMBDA exp : StrLess(exp.date, options.endDate))
                 ELSE byStart
        byCategory == IF ~options.includeAllCategories
                      THEN SelectSeq(byEnd, LAMBDA exp :
                              \E i \in 1..Len(options.categories) :
                                  options.categories[i] = exp.category)
                      ELSE byEnd
    IN SortByDateDesc(byCategory)

\* filterExpensesForExport of lib/advancedExport.ts
filterExpensesForExport(list, options) ==
    LET byStart == IF options.startDate # <<>>
                   THEN SelectSeq(list, LAMBDA exp : ~StrLess(exp.date, options.startDate))
                   ELSE list
        byEnd == IF options.endDate # <<>>
                 THEN SelectSeq(byStart, LAMBDA exp : ~StrLess(options.endDate, exp.date))
                 ELSE byStart
        byCategory == IF ~options.includeAllCategories
                      THEN SelectSeq(byEnd, LAMBDA exp :
                              \E i \in 1..Len(options.categories) :
                                  options.categories[i] = exp.category)
                      ELSE byEnd
    IN SortByDateDesc(byCategory)

\* filteredExpenses of AdvancedExportModal
ModalFilteredExpenses ==
    filterExpensesForExport(expenses,
        [startDate |-> modal.startDate, endDate |-> modal.endDate,
         categories |-> modal.selectedCategories,
         includeAllCategories |-> modal.includeAllCategories])

storeVars == <<expenses, filters, isLoading, filteredExpenses, summary, renderDate,
               stored, today, tz, nowMs, errors, formData, editingId>>

\* The parent opens the modal; useEffect([isOpen]) resets the form.
OpenAdvancedExport ==
    /\ ~isLoading
    /\ ~modal.isOpen
    /\ modal' = [ClosedModal EXCEPT !.isOpen = TRUE, !.isExporting = modal.isExporting]
    /\ UNCHANGED <<storeVars, lastExport, pending, hubVars>>

\* Close and Cancel buttons that stay enabled while an export runs.
CloseAdvancedExportWhileExporting ==
    /\ modal.isOpen
    /\ modal' = [modal EXCEPT !.isOpen = FALSE]
    /\ UNCHANGED <<storeVars, lastExport, pending, hubVars>>

\* onClose from the close or the Cancel button (disabled while exporting)
CloseAdvancedExport ==
    /\ modal.isOpen
    /\ ~modal.isExporting
    /\ modal' = [modal EXCEPT !.isOpen = FALSE]
    /\ UNCHANGED <<storeVars, lastExport, pending, hubVars>>

\* setFormat, setStartDate, setEndDate, setIncludeAllCategories
SetModalOption(name, value) ==
    /\ modal.isOpen
    /\ modal' = [modal EXCEPT ![name] = value]
    /\ UNCHANGED <<storeVars, lastExport, pending, hubVars>>

\* handleCategoryToggle
handleCategoryToggle(category) ==
    /\ modal.isOpen
    /\ modal' = [modal EXCEPT !.selectedCategories =
                    IF \E i \in 1..Len(@) : @[i] = category
                    THEN SelectSeq(@, LAMBDA c : c # category)
                    ELSE Append(@, category)]
    /\ UNCHANGED <<storeVars, lastExport, pending, hubVars>>

\* A click whose filter sorts the expenses prop itself instead of a copy.
AdvancedExportClickSortingInPlace ==
    /\ modal.isOpen
    /\ ~modal.isExporting
    /\ Len(ModalFilteredExpenses) > 0
    /\ expenses' = SortByDateDesc(expenses)
    /\ modal' = [modal EXCEPT !.isExporting = TRUE]
    /\ pending' = [phase |-> "delay", records |-> ModalFilteredExpenses,
                   format |-> modal.format, filename |-> modal.filename]
    /\ UNCHANGED <<filters, isLoading, filteredExpenses, summary, renderDate, stored,
                   today, tz, nowMs, errors, formData, editingId, lastExport, hubVars>>

\* AdvancedExportModal.handleExport up to the await (Export is disabled
\* while isExporting)
AdvancedExportClick ==
    /\ modal.isOpen
    /\ ~modal.isExporting
    /\ IF Len(ModalFilteredExpenses) = 0
       THEN /\ lastExport' = Alert("AdvancedExportModal",
                                   "No expenses to export with the current filters")
            /\ UNCHANGED <<storeVars, modal, pending, hubVars>>
       ELSE /\ modal' = [modal EXCEPT !.isExporting = TRUE]
            /\ pending' = [phase |-> "delay", records |-> ModalFilteredExpenses,
                           format |-> modal.format, filename |-> modal.filename]
            /\ UNCHANGED <<storeVars, lastExport, hubVars>>

\* An export that reads the options of the modal when the delay is over.
AdvancedExportRunCurrent(succeeds) ==
    /\ pending.phase = "delay"
    /\ IF succeeds
       THEN /\ lastExport' = [Download("AdvancedExportModal", ModalFilteredExpenses, <<>>)
                                EXCEPT !.message = modal.format,
                                       !.filename = modal.filename]
            /\ pending' = [pending EXCEPT !.phase = "closing"]
            /\ UNCHANGED modal
       ELSE /\ lastExport' = Alert("AdvancedExportModal", "Export failed. Please try again.")
            /\ modal' = [modal EXCEPT !.isExporting = FALSE]
            /\ pending' = NotPending
    /\ UNCHANGED <<storeVars, hubVars>>

\* handleExport after the 800 ms delay: the export of the captured records
\* in the captured format either writes the file or throws.
AdvancedExportRun(succeeds) ==
    /\ pending.phase = "delay"
    /\ IF succeeds
       THEN /\ lastExport' = [Download("AdvancedExportModal", pending.records, <<>>)
                                EXCEPT !.message = pending.format,
                                       !.filename = pending.filename]
            /\ pending' = [pending EXCEPT !.phase = "closing"]
            /\ UNCHANGED modal
       ELSE /\ lastExport' = Alert("AdvancedExportModal", "Export failed. Please try again.")
            /\ modal' = [modal EXCEPT !.isExporting = FALSE]
            /\ pending' = NotPending
    /\ UNCHANGED <<storeVars, hubVars>>

\* The setTimeout(..., 500) callback after a successful export
AdvancedExportDone ==
    /\ pending.phase = "closing"
    /\ modal' = [modal EXCEPT !.isExporting = FALSE, !.isOpen = FALSE]
    /\ pending' = NotPending
    /\ UNCHANGED <<storeVars, lastExport, hubVars>>

-----------------------------------------------------------------------------
(* CloudExportHub.tsx *)

\* Bounds on the entries the hub adds to its lists
MaxHubExports == 1
MaxLinks == 1

\* cloudIntegrations.find(i => i.provider === provider)?.connected
IsConnected(integrations, provider) ==
    \E k \in 1..Len(integrations) :
        integrations[k].provider = provider /\ integrations[k].connected

\* Home: onClick={() => setShowCloudExport(true)}
OpenHub ==
    /\ ~isLoading
    /\ ~hub.isOpen
    /\ hub' = [hub EXCEPT !.isOpen = TRUE]
    /\ UNCHANGED <<storeVars, lastExport, modal, pending, hubExport>>

\* onClose from the header button or the footer's Close button, both
\* disabled while isExporting; the footer is rendered on the export tab
CloseHub ==
    /\ hub.isOpen
    /\ ~hub.isExporting
    /\ hub' = [hub EXCEPT !.isOpen = FALSE]
    /\ UNCHANGED <<storeVars, lastExport, modal, pending, hubExport>>

\* Tab navigation: onClick={() => setActiveTab(tab)}
setActiveTab(tab) ==
    /\ hub.isOpen
    /\ hub' = [hub EXCEPT !.activeTab = tab]
    /\ UNCHANGED <<storeVars, lastExport, modal, pending, hubExport>>

\* Template cards of the export tab
setSelectedTemplate(template) ==
    /\ hub.isOpen
    /\ hub.activeTab = "export"
    /\ hub' = [hub EXCEPT !.selectedTemplate = template]
    /\ UNCHANGED <<storeVars, lastExport, modal, pending, hubExport>>

\* Provider buttons of the export tab, disabled={!isConnected}
setSelectedProvider(provider) ==
    /\ hub.isOpen
    /\ hub.activeTab = "export"
    /\ IsConnected(hub.cloudIntegrations, provider)
    /\ hub' = [hub EXCEPT !.selectedProvider = provider]
    /\ UNCHANGED <<storeVars, lastExport, modal, pending, hubExport>>

\* Recipients input, rendered when selectedProvider === 'email'
setEmailRecipients(value) ==
    /\ hub.isOpen
    /\ hub.activeTab = "export"
    /\ hub.selectedProvider = "email"
    /\ hub' = [hub EXCEPT !.emailRecipients = value]
    /\ UNCHANGED <<storeVars, lastExport, modal, pending, hubExport>>

\* Checkbox of a scheduled export on the Auto-Backup tab
ToggleSchedule(id) ==
    /\ hub.isOpen
    /\ hub.activeTab = "schedule"
    /\ hub' = [hub EXCEPT !.scheduledExports =
                  [k \in 1..Len(@) |->
                      IF @[k].id = id THEN [@[k] EXCEPT !.enabled = ~@] ELSE @[k]]]
    /\ UNCHANGED <<storeVars, lastExport, modal, pending, hubExport>>

\* handleToggleIntegration(provider), from the Auto-Backup tab
handleToggleIntegration(provider) ==
    /\ hub.isOpen
    /\ hub.activeTab = "schedule"
    /\ LET integrations == hub.cloudIntegrations
       IN hub' = [hub EXCEPT !.cloudIntegrations =
                     [k \in 1..Len(integrations) |->
                         LET int == integrations[k]
                         IN IF int.provider = provider
                            THEN [int EXCEPT !.connected = ~int.connected,
                                             !.lastSync = IF ~int.connected
                                                          THEN <<nowMs>> ELSE <<>>]
                            ELSE int]]
    /\ UNCHANGED <<storeVars, lastExport, modal, pending, hubExport>>

\* handleGenerateShareLink, from the Share tab
handleGenerateShareLink(random) ==
    /\ hub.isOpen
    /\ hub.activeTab = "share"
    /\ Len(hub.shareableLinks) < 1 + MaxLinks
    /\ hub' = [hub EXCEPT !.shareableLinks =
                  << [id |-> NatToString(nowMs),
                      url |-> "https://expenses.app/share/" \o random,
                      expiresAt |-> nowMs + WeekMs, viewCount |-> 0,
                      createdAt |-> nowMs] >> \o @]
    /\ UNCHANGED <<storeVars, lastExport, modal, pending, hubExport>>

\* A button that is disabled only while an export runs.
HubExportDisabledWhileExporting == hub.isExporting

\* disabled of the Export to Cloud button
HubExportDisabled ==
    \/ hub.isExporting
    \/ ~IsConnected(hub.cloudIntegrations, hub.selectedProvider)
    \/ (hub.selectedProvider = "email" /\ hub.emailRecipients = "")

\* handleExport up to the first await: the closure holds the props and
\* state of the render in which the button was clicked
HubExportClick ==
    /\ hub.isOpen
    /\ hub.activeTab = "export"
    /\ ~HubExportDisabled
    /\ Len(hub.exportHistory) < 2 + MaxHubExports
    /\ hub' = [hub EXCEPT !.isExporting = TRUE, !.exportProgress = 0]
    /\ hubExport' = [phase |-> "progress", i |-> 0,
                     closure |-> [expenses |-> expenses,
                                  selectedTemplate |-> hub.selectedTemplate,
                                  selectedProvider |-> hub.selectedProvider,
                                  emailRecipients |-> hub.emailRecipients,
                                  exportHistory |-> hub.exportHistory]]
    /\ UNCHANGED <<storeVars, lastExport, modal, pending>>

\* One 200 ms timer of the loop other than the last: setExportProgress(i)
HubExportTick ==
    /\ hubExport.phase = "progress"
    /\ hubExport.i < 100
    /\ hub' = [hub EXCEPT !.exportProgress = hubExport.i]
    /\ hubExport' = [hubExport EXCEPT !.i = @ + 10]
    /\ UNCHANGED <<storeVars, lastExport, modal, pending>>

\* newExport of handleExport
NewExport(closure, now) ==
    [id |-> NatToString(now), timestamp |-> now,
     template |-> closure.selectedTemplate,
     provider |-> closure.selectedProvider,
     recordCount |-> Len(closure.expenses),
     totalAmount |-> SumAmounts(closure.expenses),
     status |-> "success",
     destination |-> IF closure.selectedProvider = "email"
                     THEN closure.emailRecipients ELSE "Cloud Storage"]

\* The last timer of the loop and the rest of handleExport, which run as
\* one continuation: setExportProgress(100), setExportHistory,
\* setIsExporting(false), setExportProgress(0) and the alert
HubExportFinish ==
    /\ hubExport.phase = "progress"
    /\ hubExport.i = 100
    /\ hub' = [hub EXCEPT !.exportHistory =
                              <<NewExport(hubExport.closure, nowMs)>> \o
                              hubExport.closure.exportHistory,
                          !.isExporting = FALSE,
                          !.exportProgress = 0]
    /\ hubExport' = NoHubExport
    /\ lastExport' = Alert("CloudExportHub",
                           "Successfully exported to " \o hubExport.closure.selectedProvider \o "!")
    /\ UNCHANGED <<storeVars, modal, pending>>

HeSaidWow == <<"H", "e", " ", "s", "a", "i", "d", " ", "\"", "w", "o", "w", "\"">>
CommaAndNewline == <<"a", ",", "\n", "b">>

ExportForms ==
    { [date |-> Mar01, amount |-> <<"5">>, category |-> Food, description |-> HeSaidWow],
      [date |-> Mar31, amount |-> <<"1", "2", ".", "5">>, category |-> Bills,
       description |-> CommaAndNewline],
      [date |-> Mar31, amount |-> <<"0", ".", "2", "5">>, category |-> Food, description |-> Tea] }

InitExport == Loaded(ListsOf(ExportForms, MaxExpenses))

NextExport ==
    \/ ExportButtonClick
    \/ ExportToCSVCall
    \/ OpenAdvancedExport
    \/ CloseAdvancedExport
    \/ \E fmt \in {"csv", "json", "pdf"} : SetModalOption("format", fmt)
    \/ \E d \in {<<>>, Mar31} : SetModalOption("startDate", d)
    \/ \E d \in {<<>>, Mar01} : SetModalOption("endDate", d)
    \/ \E b \in BOOLEAN : SetModalOption("includeAllCategories", b)
    \/ handleCategoryToggle(Food)
    \/ AdvancedExportClick
    \/ \E succeeds \in BOOLEAN : AdvancedExportRun(succeeds)
    \/ AdvancedExportDone

SpecExport == InitExport /\ [][NextExport]_vars

-----------------------------------------------------------------------------
(* Claims about the export *)

SerializedByExportToCSV ==
    lastExport.outcome = "download" /\ lastExport.op \in {"ExportButton", "exportToCSV"}

RECURSIVE DoubleQuotes(_)
DoubleQuotes(value) ==
    IF value = <<>> THEN <<>>
    ELSE (IF value[1] = "\"" THEN <<"\"", "\"">> ELSE <<value[1]>>) \o DoubleQuotes(Tail(value))

EscapedField(value) == Quote \o DoubleQuotes(value) \o Quote

EscapedCSV(list) ==
    join(<<join(headers, Comma)>> \o
         [i \in 1..Len(list) |->
            join(<<EscapedField(list[i].date), EscapedField(list[i].category),
                   EscapedField(list[i].description),
                   EscapedField(NumberToString(list[i].amount))>>, Comma)],
         Newline)

\* C7: exportToCSV wraps every field of every data row in double quotes and
\* doubles each double quote inside a value.
C7_FieldsQuotedAndEscaped ==
    SerializedByExportToCSV => lastExport.content = EscapedCSV(lastExport.records)

\* A reader of the documented format: fields separated by commas, records by
\* newlines, a field optionally wrapped in double quotes, inside which a
\* doubled quote is a literal quote and commas and newlines are data.
CSVStart == [ok |-> TRUE, mode |-> "start", field |-> <<>>, row |-> <<>>, rows |-> <<>>]

\* One character read in state st.
CSVStep(st, c) ==
    LET endField == [st EXCEPT !.mode = "start", !.field = <<>>,
                               !.row = Append(st.row, st.field)]
        endRow == [st EXCEPT !.mode = "start", !.field = <<>>, !.row = <<>>,
                             !.rows = Append(st.rows, Append(st.row, st.field))]
        take == [st EXCEPT !.field = Append(st.field, c)]
        failed == [st EXCEPT !.ok = FALSE]
    IN IF ~st.ok THEN st
       ELSE CASE st.mode = "start" ->
                    IF c = "\"" THEN [st EXCEPT !.mode = "quoted"]
                    ELSE IF c = "," THEN endField
                    ELSE IF c = "\n" THEN endRow
                    ELSE [take EXCEPT !.mode = "plain"]
              [] st.mode = "plain" ->
                    IF c = "," THEN endField
                    ELSE IF c = "\n" THEN endRow
                    ELSE IF c = "\"" THEN failed
                    ELSE take
              [] st.mode = "quoted" ->
                    IF c = "\"" THEN [st EXCEPT !.mode = "quoteSeen"] ELSE take
              [] st.mode = "quoteSeen" ->
                    IF c = "\"" THEN [take EXCEPT !.mode = "quoted"]
                    ELSE IF c = "," THEN endField
                    ELSE IF c = "\n" THEN endRow
                    ELSE failed

\* The state after reading text[lo..hi] from state st.
RECURSIVE CSVScan(_, _, _, _)
CSVScan(text, lo, hi, st) ==
    IF ~st.ok \/ lo > hi THEN st
    ELSE IF lo = hi THEN CSVStep(st, text[lo])
    ELSE LET mid == (lo + hi) \div 2
         IN CSVScan(text, mid + 1, hi, CSVScan(text, lo, mid, st))

ReadCSV(text) ==
    LET st == CSVScan(text, 1, Len(text), CSVStart)
    IN IF ~st.ok \/ st.mode = "quoted" THEN [ok |-> FALSE, rows |-> <<>>]
       ELSE [ok |-> TRUE, rows |-> Append(st.rows, Append(st.row, st.field))]

\* C8: reading the text written by exportToCSV gives, after the header, one
\* row per record in input order whose date, category, description and
\* amount are the record's.
C8_RoundTrip ==
    SerializedByExportToCSV =>
        LET read == ReadCSV(lastExport.content)
            list == lastExport.records
        IN /\ read.ok
           /\ Len(read.rows) = Len(list) + 1
           /\ \A i \in 1..Len(list) :
                 /\ Len(read.rows[i + 1]) = 4
                 /\ read.rows[i + 1][1] = list[i].date
                 /\ read.rows[i + 1][2] = list[i].category
                 /\ read.rows[i + 1][3] = list[i].description
                 /\ parseFloat(read.rows[i + 1][4]) = list[i].amount

\* C9: an export attempted with zero records never ends in a download; the
\* caller is alerted instead.
C9_NoEmptyDownload ==
    (lastExport.op # "none" /\ Len(lastExport.records) = 0) => lastExport.outcome = "alert"

-----------------------------------------------------------------------------
(* The store edited while the wall clock can be set back *)

NextIds ==
    \/ LoadExpenses
    \/ \E entered \in ValidForms : SubmitAddForm(entered, "k3f")
    \/ \E id \in ExpenseIds : handleEdit(id)
    \/ handleCancelEdit
    \/ \E entered \in FormInputs : SubmitEditForm(entered)
    \/ \E id \in ExpenseIds : handleDelete(id)
    \/ ClockSetBack

SpecIds == Init /\ [][NextIds]_vars

-----------------------------------------------------------------------------
(* Records added and deleted, from the list and through the context *)

NextDelete ==
    \/ LoadExpenses
    \/ \E entered \in ValidForms : SubmitAddForm(entered, "k3f")
    \/ \E id \in ExpenseIds : handleDelete(id)
    \/ \E id \in ExpenseIds : DeleteExpenseCall(id)
    \/ \E c \in CategoryChoices : setFilters("category", c)
    \/ resetFilters

SpecDelete == Init /\ [][NextDelete]_vars

-----------------------------------------------------------------------------
(* Forms submitted with valid and with invalid values *)

NextForm ==
    \/ LoadExpenses
    \/ \E entered \in FormInputs : SubmitAddForm(entered, "k3f")
    \/ \E id \in ExpenseIds : handleEdit(id)
    \/ handleCancelEdit
    \/ \E entered \in FormInputs : SubmitEditForm(entered)

SpecForm == Init /\ [][NextForm]_vars

-----------------------------------------------------------------------------
(* Calls of the context's mutators by a consumer of useExpenses() *)

\* A consumer calls updateExpense(id, data) with any id; the function
\* itself does not look at isLoading.
UpdateExpenseCall(id, data) ==
    /\ updateExpense(id, data)
    /\ UNCHANGED <<errors, formData, editingId>>

\* The calls a handler can make at clock reading now: addExpense(data),
\* updateExpense(id, data), deleteExpense(id)
Mutations(now) ==
    { [op |-> "add", id |-> generateId(now, random), data |-> data] :
        random \in RandomStrings, data \in HubForms }
    \cup { [op |-> op, id |-> generateId(ms, "k3f"), data |-> data] :
             op \in {"update", "delete"}, ms \in 0..MaxClock, data \in HubForms }

\* updatedExpenses of the call m made in a render whose expenses is list
CallResult(list, m, now) ==
    IF m.op = "add" THEN AddedExpenses(list, m.data, m.id, now)
    ELSE IF m.op = "update"
         THEN IF HasId(list, m.id) THEN UpdatedExpenses(list, m.id, m.data) ELSE list
         ELSE DeletedExpenses(list, m.id)

\* The call reaches setExpenses and storage.saveExpenses.
CallWrites(list, m) == m.op # "update" \/ HasId(list, m.id)

\* One handler calls two mutators of the same render: both compute their
\* list from that render's expenses, and the later setExpenses and
\* saveExpenses replace the earlier ones.
BatchedCalls(m1, m2) ==
    /\ ~isLoading
    /\ nowMs < MaxClock
    /\ CallWrites(expenses, m1) \/ CallWrites(expenses, m2)
    /\ LET updatedExpenses == IF CallWrites(expenses, m2)
                              THEN CallResult(expenses, m2, nowMs)
                              ELSE CallResult(expenses, m1, nowMs)
       IN /\ Len(updatedExpenses) <= MaxExpenses
          /\ expenses' = updatedExpenses
          /\ stored' = SaveExpenses(updatedExpenses)
    /\ nowMs' = nowMs + 1
    /\ UNCHANGED <<filters, isLoading, today, tz, errors, formData, editingId, exportVars>>
    /\ Render(TRUE)

NextCalls ==
    \/ LoadExpenses
    \/ \E entered \in HubForms, random \in RandomStrings : SubmitAddForm(entered, random)
    \/ \E id \in ExpenseIds, data \in HubForms : UpdateExpenseCall(id, data)
    \/ \E id \in ExpenseIds : DeleteExpenseCall(id)
    \/ \E m1 \in Mutations(nowMs), m2 \in Mutations(nowMs) : BatchedCalls(m1, m2)

SpecCalls == Init /\ [][NextCalls]_vars

-----------------------------------------------------------------------------
(* Claims about the store operations *)

\* The record exp with its four data fields taken from the form.
WithData(exp, data) ==
    [id |-> exp.id, createdAt |-> exp.createdAt, date |-> data.date,
     amount |-> parseFloat(data.amount), category |-> data.category,
     description |-> data.description]

\* The step is a call updateExpense(id, data) with id present in the store.
UpdateCall(id, data) == SubmitEditForm(data) /\ DOMAIN NewErrors(data) = {} /\ id = editingId

\* C11: updateExpense(id, data) on an id present in the store replaces only
\* date, amount, category and description of the record with that id: its id
\* and createdAt stay, every other record stays, and the list keeps its
\* length and order.
C11_UpdateReplacesOnlyData ==
    [][\A id \in ExpenseIds, data \in FormInputs :
          (UpdateCall(id, data) /\ HasId(expenses, id)) =>
              /\ Len(expenses') = Len(expenses)
              /\ \A i \in 1..Len(expenses) :
                    expenses'[i] = IF expenses[i].id = id
                                   THEN WithData(expenses[i], data)
                                   ELSE expenses[i]]_vars

\* Positions of the records of list whose id is not the given one.
KeptPositions(list, id) == {i \in 1..Len(list) : list[i].id # id}

\* C12: deleteExpense(id) removes exactly the records whose id is id: none
\* is left, every other record is still there, unchanged and in the same
\* relative order; for an id not in the store the list is unchanged.
C12_DeleteRemovesExactlyId ==
    [][\A id \in ExpenseIds :
          \/ LET kept == KeptPositions(expenses, id)
             IN /\ ~HasId(expenses', id)
                /\ Len(expenses') = Cardinality(kept)
                /\ \A i \in kept :
                      expenses'[Cardinality({j \in kept : j <= i})] = expenses[i]
                /\ (~HasId(expenses, id) => expenses' = expenses)
          \/ ~deleteExpense(id)]_vars

\* Two records were added in this session and only the later one is left:
\* the earlier records were deleted around it.
C12_Witness ==
    /\ ~isLoading
    /\ Len(expenses) = 1
    /\ expenses[1].id = generateId(2, "k3f")

-----------------------------------------------------------------------------
(* Claims about the summary *)

\* The arithmetic sum, in hundredths, of the amounts of the records of list.
RECURSIVE AmountSum(_)
AmountSum(list) ==
    IF list = <<>> THEN 0 ELSE Head(list).amount.v + AmountSum(Tail(list))

\* C13: summary.totalSpending is the sum of the amounts of all records of
\* the store, filtered or not, and 0 for the empty store.
C13_TotalIsSumOfAll ==
    /\ ~summary.totalSpending.nan
    /\ summary.totalSpending.v = AmountSum(expenses)
    /\ (expenses = <<>> => summary.totalSpending.v = 0)

\* Two records are in the store and the filter hides one of them.
C13_Witness ==
    /\ Len(expenses) = 2
    /\ Len(filteredExpenses) = 1
    /\ summary.totalSpending.v = expenses[1].amount.v + expenses[2].amount.v
    /\ summary.totalSpending.v > filteredExpenses[1].amount.v

\* The records of list in the given category.
OfCategory(list, category) == SelectSeq(list, LAMBDA exp : exp.category = category)

\* The categories occurring in list.
UsedCategories(list) == {list[i].category : i \in 1..Len(list)}

FirstSeen(list, category) ==
    CHOOSE i \in 1..Len(list) :
        list[i].category = category /\ \A j \in 1..(i - 1) : list[j].category # category

\* C15: categoryBreakdown is ordered by amount descending, and categories
\* with equal totals keep the order in which they were first seen in the
\* record list.
C15_BreakdownSortedStable ==
    LET breakdown == summary.categoryBreakdown
    IN \A i, j \in 1..Len(breakdown) :
          i < j =>
             /\ breakdown[i].amount.v >= breakdown[j].amount.v
             /\ breakdown[i].amount.v = breakdown[j].amount.v =>
                    FirstSeen(expenses, breakdown[i].category)
                        < FirstSeen(expenses, breakdown[j].category)

\* After the delete of the first loaded record: the category seen last has
\* the largest total and comes first; the two categories seen before it tie
\* and keep their order.
C15_Witness ==
    LET breakdown == summary.categoryBreakdown
    IN /\ Len(expenses) = 3
       /\ ~HasId(expenses, generateId(0, "k3f"))
       /\ Len(breakdown) = 3
       /\ breakdown[1].category = expenses[3].category
       /\ breakdown[1].amount.v > breakdown[2].amount.v
       /\ breakdown[2].amount.v = breakdown[3].amount.v
       /\ breakdown[2].category = expenses[1].category

\* C16: topCategory is null exactly when there are no records; otherwise it
\* carries the category and amount of the first breakdown entry, and no
\* category has a larger total.
C16_TopCategoryIsLargest ==
    /\ (summary.topCategory = <<>>) <=> (expenses = <<>>)
    /\ expenses # <<>> =>
          LET top == summary.topCategory[1]
          IN /\ top.name = summary.categoryBreakdown[1].category
             /\ top.amount = summary.categoryBreakdown[1].amount
             /\ \A c \in UsedCategories(expenses) :
                   AmountSum(OfCategory(expenses, c)) <= top.amount.v

\* After the delete of the first loaded record: the top category is not the
\* category of the first record left, and its total is the larger one.
C16_Witness ==
    /\ Len(expenses) >= 2
    /\ ~HasId(expenses, generateId(0, "k3f"))
    /\ summary.topCategory # <<>>
    /\ summary.topCategory[1].name # expenses[1].category
    /\ summary.topCategory[1].amount.v > AmountSum(OfCategory(expenses, expenses[1].category))

\* The tolerance 2^-ToleranceBits allowed to a percentage and to their sum.
ToleranceBits == 30

\* |x - y|
BigDistance(x, y) == IF BigCmp(x, y) >= 0 THEN BigSub(x, y) ELSE BigSub(y, x)

\* The distance of the double p from 100 * amount / total, multiplied by
\* total * 2^-p.e (p.e is negative for every percentage up to 100).
PercentageError(p, amount, total) ==
    BigDistance(BigMulSmall(p.m, total, 0), BigShl(BigOfNat(100 * amount), 0 - p.e))

\* The smallest exponent among the percentages of the breakdown.
MinExponent(breakdown) ==
    CHOOSE e \in {breakdown[i].percentage.e : i \in 1..Len(breakdown)} :
        \A i \in 1..Len(breakdown) : e <= breakdown[i].percentage.e

\* The exact sum of the percentages of the breakdown, multiplied by 2^-e0.
RECURSIVE PercentageSum(_, _)
PercentageSum(breakdown, e0) ==
    IF breakdown = <<>> THEN <<>>
    ELSE BigAdd(BigShl(Head(breakdown).percentage.m, Head(breakdown).percentage.e - e0),
                PercentageSum(Tail(breakdown), e0), 0)

\* The distance of the sum of the percentages from 100, multiplied by 2^-e0.
SumError(breakdown) ==
    LET e0 == MinExponent(breakdown)
    IN BigDistance(BigNorm(PercentageSum(breakdown, e0)), BigShl(BigOfNat(100), 0 - e0))

\* C17 as stated: for a non-empty record list every percentage equals
\* 100 * amount / totalSpending and the percentages sum to 100; when
\* totalSpending is 0 every percentage is 0.
C17_PercentagesExact ==
    LET breakdown == summary.categoryBreakdown
        total == summary.totalSpending.v
    IN expenses # <<>> =>
          IF total > 0
          THEN /\ \A i \in 1..Len(breakdown) :
                     PercentageError(breakdown[i].percentage, breakdown[i].amount.v, total) = <<>>
               /\ SumError(breakdown) = <<>>
          ELSE \A i \in 1..Len(breakdown) : breakdown[i].percentage = DoubleZero

\* C17, amended: for a non-empty record list every percentage is within
\* 2^-ToleranceBits of 100 * amount / totalSpending and the percentages sum
\* to 100 within 2^-ToleranceBits; when totalSpending is 0 every percentage
\* is 0 and nothing is divided.
C17_PercentagesWithinTolerance ==
    LET breakdown == summary.categoryBreakdown
        total == summary.totalSpending.v
    IN expenses # <<>> =>
          IF total > 0
          THEN /\ \A i \in 1..Len(breakdown) :
                     LET p == breakdown[i].percentage
                     IN BigCmp(PercentageError(p, breakdown[i].amount.v, total),
                               BigShl(BigOfNat(total), 0 - p.e - ToleranceBits)) <= 0
               /\ BigCmp(SumError(breakdown),
                         BigShl(<<1>>, 0 - MinExponent(breakdown) - ToleranceBits)) <= 0
          ELSE \A i \in 1..Len(breakdown) : breakdown[i].percentage = DoubleZero

\* After a delete, two categories whose percentages are rounded quotients
\* and do not add up to 100 exactly.
C17_Witness ==
    LET breakdown == summary.categoryBreakdown
    IN /\ Len(breakdown) = 2
       /\ ~HasId(expenses, generateId(0, "k3f"))
       /\ SumError(breakdown) # <<>>
       /\ \A i \in 1..2 :
             PercentageError(breakdown[i].percentage, breakdown[i].amount.v,
                             summary.totalSpending.v) # <<>>

-----------------------------------------------------------------------------
(* Claims about the filtered view *)

\* sub is list with some of its records left out.
RECURSIVE IsSubsequence(_, _)
IsSubsequence(sub, list) ==
    IF sub = <<>> THEN TRUE
    ELSE IF list = <<>> THEN FALSE
    ELSE IF Head(sub) = Head(list) THEN IsSubsequence(Tail(sub), Tail(list))
    ELSE IsSubsequence(sub, Tail(list))

\* C18: filteredExpenses is always a subsequence of the record list (only
\* records of the list, each at most once, in the list's order), and a step
\* that computes it for a new filter leaves the record list alone, as a step
\* that computes it for a new list leaves the filter alone.
C18_FilteredIsSubsequence ==
    /\ [](IsSubsequence(filteredExpenses, expenses))
    /\ [][/\ filters' # filters => (expenses' = expenses /\ stored' = stored)
          /\ expenses' # expenses => filters' = filters]_vars

\* The filter hides the first of two records and shows the second.
C18_Witness ==
    /\ Len(expenses) = 2
    /\ expenses[1] # expenses[2]
    /\ filters # initialFilters
    /\ filteredExpenses = <<expenses[2]>>

\* The filter as the provider creates it: category 'All', no dates, no search.
DefaultFilter ==
    [category |-> <<"A", "l", "l">>, startDate |-> <<>>, endDate |-> <<>>,
     searchQuery |-> <<>>]

\* C19: under the all-default filter filteredExpenses is the full record
\* list in its order, and resetFilters restores exactly that filter, so
\* right after it the filtered view is the full list.
C19_DefaultFilterShowsAll ==
    /\ [](filters = DefaultFilter => filteredExpenses = expenses)
    /\ [][resetFilters => (filters' = DefaultFilter /\ filteredExpenses' = expenses')]_vars

\* Two different records, both shown under the default filter.
C19_Witness ==
    /\ filters = DefaultFilter
    /\ Len(expenses) = 2
    /\ expenses[1].category # expenses[2].category
    /\ expenses[1].date # expenses[2].date
    /\ filteredExpenses = expenses

-----------------------------------------------------------------------------
(* Claims about the form *)

\* The fields of the entered values that are invalid: a missing date, an
\* amount that is missing, not a number or not positive, a description that
\* is blank after trimming.
FailedFields(entered) ==
    {k \in {"date"} : entered.date = <<>>}
    \cup {k \in {"amount"} : \/ entered.amount = <<>>
                             \/ parseFloat(entered.amount).nan
                             \/ parseFloat(entered.amount).v <= 0}
    \cup {k \in {"description"} : trim(entered.description) = <<>>}

\* The step is a submit of a form holding the entered values.
SubmitOf(entered) == SubmitAddForm(entered, "k3f") \/ SubmitEditForm(entered)

\* C20: when a submitted form has an invalid field, onSubmit is not called
\* and the store is unchanged, the form keeps the entered values, and errors
\* holds a message for exactly the fields that failed.
C20_InvalidSubmitRejected ==
    [][\A entered \in FormInputs :
          (SubmitOf(entered) /\ FailedFields(entered) # {}) =>
              /\ expenses' = expenses
              /\ stored' = stored
              /\ nowMs' = nowMs
              /\ editingId' = editingId
              /\ formData' = entered
              /\ DOMAIN errors' = FailedFields(entered)
              /\ \A k \in DOMAIN errors' : errors'[k] # ""]_vars

\* A form with three invalid fields was submitted while one record is stored.
C20_Witness ==
    /\ formData # NoForm
    /\ FailedFields(formData) = {"date", "amount", "description"}
    /\ DOMAIN errors = {"date", "amount", "description"}
    /\ Len(expenses) = 1
    /\ stored = expenses

-----------------------------------------------------------------------------
(* Every export of the application next to the store *)

NextAllExports ==
    \/ \E c \in CategoryChoices : setFilters("category", c)
    \/ ExportButtonClick
    \/ ExportToCSVCall
    \/ OpenAdvancedExport
    \/ CloseAdvancedExport
    \/ \E fmt \in {"csv", "json", "pdf"} : SetModalOption("format", fmt)
    \/ AdvancedExportClick
    \/ \E succeeds \in BOOLEAN : AdvancedExportRun(succeeds)
    \/ AdvancedExportDone
    \/ OpenHub
    \/ CloseHub
    \/ HubExportClick
    \/ HubExportTick
    \/ HubExportFinish

SpecAllExports == InitHub /\ [][NextAllExports]_vars

\* A step of one of the export operations
ExportStep ==
    \/ ExportButtonClick
    \/ ExportToCSVCall
    \/ AdvancedExportClick
    \/ \E succeeds \in BOOLEAN : AdvancedExportRun(succeeds)
    \/ AdvancedExportDone
    \/ HubExportClick
    \/ HubExportTick
    \/ HubExportFinish

\* C21: no export operation changes the record store: every step of the
\* quick CSV export, of an Advanced Export in any format, whether it writes
\* the file or throws, and of a Cloud Export Hub export leaves the record
\* list, the persisted list, the filter, the filtered list and the summary
\* as they were.
C21_ExportsLeaveStoreAlone ==
    [][\/ UNCHANGED <<expenses, stored, filters, filteredExpenses, summary>>
       \/ ~ExportStep]_vars

\* A hub export has added its entry and an Advanced Export has written its
\* file, with records in the store and a category filter set.
C21_Witness ==
    /\ Len(hub.exportHistory) = 3
    /\ pending.phase = "closing"
    /\ lastExport.op = "AdvancedExportModal"
    /\ lastExport.outcome = "download"
    /\ Len(expenses) = 2
    /\ filters.category = Food

-----------------------------------------------------------------------------
(* The list filter and the export filter side by side *)

NextExportFilter ==
    \/ \E c \in CategoryChoices : setFilters("category", c)
    \/ \E d \in {<<>>, Mar01} : setFilters("endDate", d)
    \/ OpenAdvancedExport
    \/ CloseAdvancedExport
    \/ \E d \in {<<>>, Mar01} : SetModalOption("endDate", d)
    \/ \E b \in BOOLEAN : SetModalOption("includeAllCategories", b)
    \/ \E c \in {Food, Bills} : handleCategoryToggle(c)

SpecExportFilter == InitFilter /\ [][NextExportFilter]_vars

\* The two lists hold the same records, each as often in one as in the other.
SameRecords(a, b) ==
    /\ Len(a) = Len(b)
    /\ \A i \in 1..Len(a) :
          Cardinality({j \in 1..Len(a) : a[j] = a[i]}) =
          Cardinality({j \in 1..Len(b) : b[j] = a[i]})

ExportOptions(startDate, endDate, categories, includeAllCategories) ==
    [startDate |-> startDate, endDate |-> endDate, categories |-> categories,
     includeAllCategories |-> includeAllCategories]

EngineFilter(category, startDate, endDate) ==
    [category |-> category, startDate |-> startDate, endDate |-> endDate,
     searchQuery |-> <<>>]

\* C22: for the record list of the store, every start date, end date and
\* category c, filterExpensesForExport with categories = [c] and
\* includeAllCategories = false selects exactly the records the list filter
\* selects for category c, the same dates and an empty search, and with
\* includeAllCategories = true exactly those selected for category 'All';
\* so the modal's filteredExpenses holds the records of the provider's
\* filteredExpenses whenever the modal's options and the filter agree.
C22_ExportFilterMatchesEngine ==
    /\ \A startDate \in DateChoices, endDate \in DateChoices :
          /\ \A c \in {CATEGORIES[k] : k \in 1..Len(CATEGORIES)} :
                SameRecords(
                    filterExpensesForExport(expenses,
                        ExportOptions(startDate, endDate, <<c>>, FALSE)),
                    FilterExpenses(expenses, EngineFilter(c, startDate, endDate)))
          /\ \A categories \in {<<>>, <<Food>>, <<Food, Bills>>} :
                SameRecords(
                    filterExpensesForExport(expenses,
                        ExportOptions(startDate, endDate, categories, TRUE)),
                    FilterExpenses(expenses, EngineFilter(All, startDate, endDate)))
    /\ (/\ modal.startDate = filters.startDate
        /\ modal.endDate = filters.endDate
        /\ \/ modal.includeAllCategories /\ filters.category = All
           \/ ~modal.includeAllCategories /\ modal.selectedCategories = <<filters.category>>)
       => SameRecords(ModalFilteredExpenses, filteredExpenses)

\* The modal is open with one category and an end date that a record
\* carries, the list filter is set alike, and both select some of the
\* records but not all.
C22_Witness ==
    /\ modal.isOpen
    /\ ~modal.includeAllCategories
    /\ modal.selectedCategories = <<Bills>>
    /\ filters.category = Bills
    /\ modal.endDate = Mar01
    /\ filters.endDate = Mar01
    /\ Len(ModalFilteredExpenses) = 1
    /\ Len(filteredExpenses) = 1
    /\ Len(expenses) = 2
    /\ expenses[1].category = Bills
    /\ expenses[2].category = Bills

-----------------------------------------------------------------------------
(* The Advanced Export modal with its timers *)

NextModal ==
    \/ OpenAdvancedExport
    \/ CloseAdvancedExport
    \/ \E fmt \in {"csv", "pdf"} : SetModalOption("format", fmt)
    \/ \E name \in {"expense-report", "march"} : SetModalOption("filename", name)
    \/ \E d \in {<<>>, Mar01} : SetModalOption("endDate", d)
    \/ AdvancedExportClick
    \/ \E succeeds \in BOOLEAN : AdvancedExportRun(succeeds)
    \/ AdvancedExportDone

\* The 800 ms and the 500 ms timers fire.
SpecModal ==
    /\ InitHub
    /\ [][NextModal]_vars
    /\ WF_vars(\E succeeds \in BOOLEAN : AdvancedExportRun(succeeds))
    /\ WF_vars(AdvancedExportDone)

\* C23: in the Advanced Export modal an export starts only when none is in
\* flight; while one is in flight isExporting is true and the modal cannot
\* be closed; a successful export ends with the modal closed and
\* isExporting false, a thrown error with an alert, isExporting false and
\* the modal still open; every started export ends.
C23_OneExportInFlight ==
    /\ [](pending.phase # "idle" <=> modal.isExporting)
    /\ [](modal.isExporting => modal.isOpen)
    /\ [][/\ pending'.phase = "delay" /\ pending.phase # "delay"
              => ~modal.isExporting /\ pending.phase = "idle"
          /\ modal.isExporting /\ modal'.isExporting
              => modal'.isOpen /\ pending'.records = pending.records
          /\ pending.phase = "closing" /\ pending'.phase # "closing"
              => /\ ~modal'.isExporting
                 /\ ~modal'.isOpen
                 /\ pending'.phase = "idle"
                 /\ lastExport.outcome = "download"
          /\ pending.phase = "delay" /\ pending'.phase = "idle"
              => /\ ~modal'.isExporting
                 /\ modal'.isOpen
                 /\ lastExport'.outcome = "alert"
                 /\ lastExport'.message = "Export failed. Please try again."]_vars
    /\ (modal.isExporting ~> ~modal.isExporting)

\* An export threw: the user was alerted and the modal is open and idle
\* again.
C23_Witness ==
    /\ lastExport.op = "AdvancedExportModal"
    /\ lastExport.message = "Export failed. Please try again."
    /\ modal.isOpen
    /\ ~modal.isExporting
    /\ pending.phase = "idle"

\* C29: the records, the format and the file name an Advanced Export writes
\* are those of the render in which Export was clicked, whatever the format,
\* file name and date range are set to during the delay.
C29_ExportUsesOptionsAtClick ==
    [][/\ pending.phase = "idle" /\ pending'.phase = "delay"
          => /\ pending'.records = ModalFilteredExpenses
             /\ pending'.format = modal.format
             /\ pending'.filename = modal.filename
       /\ pending.phase = "delay" /\ pending'.phase = "delay"
          => pending' = pending
       /\ pending.phase = "delay" /\ pending'.phase = "closing"
          => /\ lastExport'.outcome = "download"
             /\ lastExport'.records = pending.records
             /\ lastExport'.message = pending.format
             /\ lastExport'.filename = pending.filename
             /\ pending' = [pending EXCEPT !.phase = "closing"]]_vars

\* A file was written as CSV under the default name with both records while
\* the modal, changed during the delay, shows another format, another name
\* and a date range that selects one record.
C29_Witness ==
    /\ pending.phase = "closing"
    /\ lastExport.outcome = "download"
    /\ lastExport.message = "csv"
    /\ modal.format = "pdf"
    /\ lastExport.filename = "expense-report"
    /\ modal.filename = "march"
    /\ Len(lastExport.records) = 2
    /\ Len(ModalFilteredExpenses) = 1

-----------------------------------------------------------------------------
(* The Cloud Export Hub with its timers *)

NextHub ==
    \/ OpenHub
    \/ CloseHub
    \/ \E tab \in {"export", "schedule"} : setActiveTab(tab)
    \/ \E provider \in {"google-sheets", "email"} : setSelectedProvider(provider)
    \/ \E value \in {"", "a@b.c"} : setEmailRecipients(value)
    \/ handleToggleIntegration("google-sheets")
    \/ HubExportClick
    \/ HubExportTick
    \/ HubExportFinish

\* The 200 ms timers fire.
SpecHub ==
    /\ InitHub
    /\ [][NextHub]_vars
    /\ WF_vars(HubExportTick)
    /\ WF_vars(HubExportFinish)

C28_RecordedProviderConnected ==
    [][hub.isExporting /\ ~hub'.isExporting
         => IsConnected(hub'.cloudIntegrations, Head(hub'.exportHistory).provider)]_vars

-----------------------------------------------------------------------------
(* The Cloud Export Hub closed and opened again *)

NextHubReset ==
    \/ OpenHub
    \/ CloseHub
    \/ \E tab \in {"export", "history", "schedule", "share"} : setActiveTab(tab)
    \/ setSelectedTemplate("tax-report")
    \/ handleToggleIntegration("dropbox")
    \/ ToggleSchedule(<<"1">>)
    \/ handleGenerateShareLink("k3f")
    \/ HubExportClick
    \/ HubExportTick
    \/ HubExportFinish

SpecHubReset == InitHub /\ [][NextHubReset]_vars

\* C25: whenever the hub is opened, its export history, cloud integrations,
\* scheduled exports and shareable links are the initial mock values.
C25_HubStateResetOnClose ==
    [][~hub.isOpen /\ hub'.isOpen
         => /\ hub'.exportHistory = InitialHub(nowMs).exportHistory
            /\ hub'.cloudIntegrations = InitialHub(nowMs).cloudIntegrations
            /\ hub'.scheduledExports = InitialHub(nowMs).scheduledExports
            /\ hub'.shareableLinks = InitialHub(nowMs).shareableLinks]_vars

-----------------------------------------------------------------------------
(* Claims about calls of the mutators *)

\* C26: when one handler issues two mutations before the provider renders
\* again, the list in memory and the list persisted afterwards are those of
\* the first mutation followed by the second.
C26_NoLostMutation ==
    [][\A m1 \in Mutations(nowMs), m2 \in Mutations(nowMs) :
          LET both == CallResult(CallResult(expenses, m1, nowMs), m2, nowMs)
          IN \/ expenses' = both /\ stored' = both
             \/ ~BatchedCalls(m1, m2)]_vars

\* C30: updateExpense with an id that is not in the store leaves the record
\* list, the persisted list and the derived values as they were.
C30_UpdateOfMissingIdIsNoOp ==
    [][\A id \in ExpenseIds, data \in HubForms :
          \/ UNCHANGED <<expenses, stored, filteredExpenses, summary>>
          \/ HasId(expenses, id)
          \/ ~UpdateExpenseCall(id, data)]_vars

\* The store holds one record and the record added first is gone:
\* updateExpense called with its id finds nothing.
C30_Witness ==
    /\ ~isLoading
    /\ Len(expenses) = 1
    /\ stored = expenses
    /\ ~HasId(expenses, generateId(1, "k3f"))
    /\ ENABLED UpdateExpenseCall(generateId(1, "k3f"), CHOOSE data \in HubForms : TRUE)

\* C27: while isLoading is true nothing is written to storage and the only
\* change of the record list is the load of the stored list, which ends the
\* loading; once loaded the page never loads again, and a step that adds to
\* the persisted list or rewrites it in place keeps every record that was
\* stored.
C27_NoMutationBeforeLoad ==
    [][/\ isLoading
          => /\ stored' = stored
             /\ \/ expenses' = expenses /\ isLoading'
                \/ expenses' = GetExpenses(stored) /\ ~isLoading'
       /\ ~isLoading
          => /\ ~isLoading'
             /\ Len(stored') > Len(stored)
                  => SubSeq(stored', 1, Len(stored)) = stored
             /\ Len(stored') = Len(stored)
                  => \A i \in 1..Len(stored) : stored'[i].id = stored[i].id]_vars

\* The record that was in storage before the page was opened is still the
\* first of the persisted list after the load and an add.
C27_Witness ==
    /\ ~isLoading
    /\ Len(stored) = 2
    /\ stored[1] = SavedExpense
    /\ stored = expenses

====
